---- MODULE Spec2Model ----
(***************************************************************************)
(* A model of create-vue's scaffolding core: deepMerge (utils/deepMerge),  *)
(* the two directory traversals (utils/directoryTraverse), renderTemplate  *)
(* with sortDependencies, and the part of init() that builds the project   *)
(* root.                                                                   *)
(*                                                                         *)
(* JavaScript values live in a heap of objects addressed by references, so *)
(* that identity (Set deduplication, aliasing by assignment) is modelled.  *)
(* Documents as text (JSON) are immutable trees.                           *)
(***************************************************************************)
EXTENDS Integers, Sequences, FiniteSets, TLC

VARIABLES
    heap,       \* the JavaScript heap: a sequence of objects, address = index
    tgt,        \* reference to the merge target document
    inc,        \* sequence of references to the incoming documents
    docT,       \* the text the target was parsed from
    docB,       \* the texts the incoming documents were parsed from
    hist,       \* snapshots of the target: before any merge, after each merge
    used,       \* index of the incoming document of each merge done so far
    fs,         \* the file system: the kind of entry at every path
    linkTo,     \* the path every symbolic link holds
    run,        \* the last traversal: its arguments, callbacks invoked, outcome
    prevRun,    \* the traversal before it
    data,       \* the content of every file
    rrun,       \* the last renderTemplate call: what it found, read and did
    ini         \* init(): its position, its inputs and the prompt's result

mergeVars == <<heap, tgt, inc, docT, docB, hist, used>>
travVars == <<fs, linkTo, run, prevRun>>
renderVars == <<data, rrun, ini>>
vars == <<heap, tgt, inc, docT, docB, hist, used, fs, linkTo, run, prevRun, data, rrun, ini>>

----------------------------------------------------------------------------
(* Bounds *)

MaxNum == 1        \* numbers 1..MaxNum occur as scalars
MaxLen == 2        \* longest sequence in an input document
MaxMerges == 2     \* merges into one target in one behaviour
MaxDepth == 3      \* deepest entry below the root directory
MaxEntries == 3    \* entries of the initial directory tree
MaxRenderEntries == 3  \* entries below the template and the project root together
MaxRenders == 1    \* renderTemplate calls in one behaviour
MaxLinkHops == 2    \* longest chain of symbolic links followed
MaxFixupEntries == 4  \* entries of a project tree the prune runs over
MaxFixupDepth == 3  \* deepest entry of such a tree
MaxRenameEntries == 3  \* entries of a project tree the rename runs over
MaxRenameDepth == 2  \* deepest entry of such a tree
MaxTouches == 1    \* changes another process makes while init() awaits the user

----------------------------------------------------------------------------
(* Documents as immutable trees (JSON text) *)

TNum(n) == [t |-> "num", n |-> n]
TNull == [t |-> "null", n |-> 0]
TUndef == [t |-> "undef", n |-> 0]
\* the strings of the model, each known by its place here: two of more than
\* one character, and the one-character strings their characters are
StrTexts == <<"s1", "s2", "s", "1", "2">>
StrText(id) == StrTexts[id]
StrId(text) == CHOOSE i \in 1..Len(StrTexts) : StrTexts[i] = text
TStr(id) == [t |-> "str", n |-> id]     \* the string StrText(id)
TEntry(k, v) == [k |-> k, val |-> v]
TObj(kv) == [t |-> "obj", kv |-> kv]

\* the property names of array indices, "0" for index 0 and so on
IdxKeys == <<"0", "1", "2", "3", "4", "5", "6", "7", "8", "9">>
IsIndexKey(k) == \E i \in 1..Len(IdxKeys) : IdxKeys[i] = k
IndexOf(k) == (CHOOSE i \in 1..Len(IdxKeys) : IdxKeys[i] = k) - 1

\* the tree of an array literal: its elements under the index keys, and its
\* length
TArr(els) == [t |-> "arr", kv |-> [i \in 1..Len(els) |-> TEntry(IdxKeys[i], els[i])],
              len |-> Len(els)]

IsContainer(tr) == tr.t \in {"obj", "arr"}
TKeys(tr) == {tr.kv[i].k : i \in 1..Len(tr.kv)}
THas(tr, k) == IsContainer(tr) /\ k \in TKeys(tr)
TGet(tr, k) == IF THas(tr, k) THEN tr.kv[CHOOSE i \in 1..Len(tr.kv) : tr.kv[i].k = k].val ELSE TUndef
\* the length of an array tree
TLength(tr) == tr.len
\* the elements of an array tree as iteration reads them: every index below
\* the length, a hole read as undefined
TElems(tr) == [i \in 1..TLength(tr) |-> TGet(tr, IdxKeys[i])]

----------------------------------------------------------------------------
(* The heap *)

VNum(n) == [t |-> "num", v |-> n]
VNull == [t |-> "null", v |-> 0]
VUndef == [t |-> "undef", v |-> 0]
VRef(a) == [t |-> "ref", v |-> a]
VStr(id) == [t |-> "str", v |-> id]

HEntry(k, v) == [k |-> k, v |-> v]

\* A cell of the heap is an object: whether it is an array, its length (of an
\* array), its own enumerable properties in Object.keys order, and its
\* prototype.  The heap of a program begins with Object.prototype,
\* Array.prototype, Number.prototype and String.prototype; their own
\* properties are functions, under names no document of the model has, the
\* accessor __proto__ of Object.prototype, and the length of String.prototype.
ObjectPrototype == 1
ArrayPrototype == 2
NumberPrototype == 3
StringPrototype == 4
Heap0 == <<[arr |-> FALSE, len |-> 0, ents |-> <<>>, proto |-> VNull],
           [arr |-> TRUE, len |-> 0, ents |-> <<>>, proto |-> VRef(ObjectPrototype)],
           [arr |-> FALSE, len |-> 0, ents |-> <<>>, proto |-> VRef(ObjectPrototype)],
           [arr |-> FALSE, len |-> 0, ents |-> <<>>, proto |-> VRef(ObjectPrototype)]>>
\* {} and []
NewObject == [arr |-> FALSE, len |-> 0, ents |-> <<>>, proto |-> VRef(ObjectPrototype)]
EmptyArray == [arr |-> TRUE, len |-> 0, ents |-> <<>>, proto |-> VRef(ArrayPrototype)]

\* throw: the Error is the last object made (its own prototype is not
\* modelled), and what would have run next does not run
\* the value of expr, worked out once and then given to Body
With(expr, Body(_)) == CHOOSE r \in {Body(x) : x \in {expr}} : TRUE

Throw(h) == Append(h, [arr |-> FALSE, len |-> 0, ents |-> <<>>, proto |-> VUndef])
Thrown(h) == Len(h) > 0 /\ h[Len(h)].proto.t = "undef"

\* Object.keys(obj): integer-like keys ascending, then the others in insertion order
Keys(h, a) == [i \in 1..Len(h[a].ents) |-> h[a].ents[i].k]

\* an own enumerable property
HasProp(h, a, key) == \E i \in 1..Len(h[a].ents) : h[a].ents[i].k = key
OwnProp(h, a, key) == h[a].ents[CHOOSE i \in 1..Len(h[a].ents) : h[a].ents[i].k = key].v

RECURSIVE InChain(_, _, _)
\* whether object b is a, or on the prototype chain of a
InChain(h, a, b) ==
    a = b \/ (h[a].proto.t = "ref" /\ InChain(h, h[a].proto.v, b))

\* the prototype of a value that is an object, a number or a string (of a
\* number or a string, that of the object it is wrapped in)
PrototypeOf(h, val) ==
    IF val.t = "ref" THEN h[val.v].proto
    ELSE IF val.t = "num" THEN VRef(NumberPrototype)
    ELSE VRef(StringPrototype)

RECURSIVE Lookup(_, _, _, _)
\* the property key of the value receiver, looked for from a up the
\* prototype chain: an own property, the length of an array or of
\* String.prototype, the accessor __proto__ of Object.prototype (which gives
\* the prototype of the receiver), or what the prototype of a has
Lookup(h, a, key, receiver) ==
    IF HasProp(h, a, key) THEN OwnProp(h, a, key)
    ELSE IF h[a].arr /\ key = "length" THEN VNum(h[a].len)
    ELSE IF a = StringPrototype /\ key = "length" THEN VNum(0)
    ELSE IF a = ObjectPrototype /\ key = "__proto__" THEN PrototypeOf(h, receiver)
    ELSE IF h[a].proto.t = "ref" THEN Lookup(h, h[a].proto.v, key, receiver)
    ELSE VUndef

\* obj[key]: own or inherited; undefined when there is no such property
GetProp(h, a, key) == Lookup(h, a, key, VRef(a))

\* the entries of an object after a property key is created or replaced
PutEntry(ents, key, val) ==
    IF \E i \in 1..Len(ents) : ents[i].k = key
    THEN [i \in 1..Len(ents) |-> IF ents[i].k = key THEN HEntry(key, val) ELSE ents[i]]
    ELSE IF IsIndexKey(key)
    THEN LET before == {i \in 1..Len(ents) :
                           IsIndexKey(ents[i].k) /\ IndexOf(ents[i].k) < IndexOf(key)}
             n == Cardinality(before)
         IN SubSeq(ents, 1, n) \o <<HEntry(key, val)>> \o SubSeq(ents, n + 1, Len(ents))
    ELSE Append(ents, HEntry(key, val))

\* CreateDataProperty(obj, key, val), as JSON.parse, an object spread and
\* Array.from do: an own property whatever the prototypes hold; an index at or
\* past the end of an array raises its length
DefineProp(h, a, key, val) ==
    [h EXCEPT ![a].ents = PutEntry(@, key, val),
              ![a].len = IF h[a].arr /\ IsIndexKey(key) /\ IndexOf(key) >= @
                         THEN IndexOf(key) + 1 ELSE @]

RECURSIVE ToNumber(_, _)
\* Number(val) where it is a whole number that may be a length, -1 where it
\* is not (NaN): null is 0, a string its numeral, an array what its elements
\* joined by commas read as (one element, or none), any other object NaN
ToNumber(h, val) ==
    IF val.t = "num" THEN val.v
    ELSE IF val.t = "null" THEN 0
    ELSE IF val.t = "str"
    THEN (IF IsIndexKey(StrText(val.v)) THEN IndexOf(StrText(val.v)) ELSE -1)
    ELSE IF val.t = "ref" /\ val.v \in {NumberPrototype, StringPrototype}
    THEN 0                                  \* the number 0 and the string '' they wrap
    ELSE IF val.t = "ref" /\ h[val.v].arr /\ InChain(h, val.v, ArrayPrototype)
    THEN (IF h[val.v].len = 0 THEN 0
          ELSE IF h[val.v].len > 1 THEN -1
          ELSE LET el == GetProp(h, val.v, "0")
               IN IF el.t \in {"null", "undef"} THEN 0 ELSE ToNumber(h, el))
    ELSE -1

\* arr.length = val: the elements at and past the new length are deleted;
\* RangeError when val is no length
SetLength(h, a, val) ==
    LET n == ToNumber(h, val)
    IN IF n < 0 THEN Throw(h)
       ELSE [h EXCEPT ![a].len = n,
                      ![a].ents = SelectSeq(@, LAMBDA e : ~IsIndexKey(e.k) \/ IndexOf(e.k) < n)]

\* obj.__proto__ = val through the accessor of Object.prototype: a value that
\* is neither an object nor null is ignored; TypeError for Object.prototype
\* itself (its prototype is immutable) and for a chain that would be cyclic
SetPrototype(h, a, val) ==
    IF val.t \notin {"ref", "null"} \/ val = h[a].proto THEN h
    ELSE IF a = ObjectPrototype \/ (val.t = "ref" /\ InChain(h, val.v, a)) THEN Throw(h)
    ELSE [h EXCEPT ![a].proto = val]

\* the heap after obj[key] = val (strict mode): an own property is replaced;
\* length of an array and __proto__, where the accessor is inherited, are
\* set as such (TypeError for the length of String.prototype, which is not
\* writable); any other key becomes an own property
SetProp(h, a, key, val) ==
    IF HasProp(h, a, key) THEN DefineProp(h, a, key, val)
    ELSE IF h[a].arr /\ key = "length" THEN SetLength(h, a, val)
    ELSE IF a = StringPrototype /\ key = "length" THEN Throw(h)
    ELSE IF key = "__proto__" /\ InChain(h, a, ObjectPrototype) THEN SetPrototype(h, a, val)
    ELSE DefineProp(h, a, key, val)

\* arr.length
Length(h, a) == h[a].len

\* [...arr]: every index below the length, a hole read as undefined or as
\* what a prototype holds under the index
Elements(h, a) == [i \in 1..Length(h, a) |-> GetProp(h, a, IdxKeys[i])]

\* whether [...arr] finds the iterator, which Array.prototype holds
Iterable(h, a) == InChain(h, a, ArrayPrototype)

\* new Set(seq), as Array.from reads it back: first occurrences, compared by
\* SameValueZero (scalars by value, objects by reference)
RECURSIVE SetOf(_, _)
SetOf(seq, acc) ==
    IF seq = <<>> THEN acc
    ELSE IF \E i \in 1..Len(acc) : acc[i] = Head(seq)
         THEN SetOf(Tail(seq), acc)
         ELSE SetOf(Tail(seq), Append(acc, Head(seq)))

\* a new array holding the given elements
NewArray(h, els) ==
    [h |-> Append(h, [EmptyArray EXCEPT
                         !.len = Len(els),
                         !.ents = [i \in 1..Len(els) |-> HEntry(IdxKeys[i], els[i])]]),
     v |-> VRef(Len(h) + 1)]

\* TypeError: a is not iterable
NotIterable(h) == [h |-> Throw(h), v |-> VUndef]

IsArray(h, val) == val.t = "ref" /\ h[val.v].arr

\* isObject: val && typeof val === 'object' (null is falsy; an array is an object)
isObject(val) == val.t = "ref"

\* a plausible slip: the spread without the Set
ConcatNoDedupe(h, a, b) ==
    IF ~Iterable(h, a) \/ ~Iterable(h, b) THEN NotIterable(h)
    ELSE NewArray(h, Elements(h, a) \o Elements(h, b))

\* a plausible slip: the incoming elements first
DedupeIncomingFirst(h, a, b) ==
    IF ~Iterable(h, a) \/ ~Iterable(h, b) THEN NotIterable(h)
    ELSE NewArray(h, SetOf(Elements(h, b) \o Elements(h, a), <<>>))

\* Array.from(new Set([...a, ...b])): a new array
mergeArrayWithDedupe(h, a, b) ==
    IF ~Iterable(h, a) \/ ~Iterable(h, b) THEN NotIterable(h)
    ELSE NewArray(h, SetOf(Elements(h, a) \o Elements(h, b), <<>>))

\* Object.keys(val): of a string its indices, of a number none
KeysOf(h, val) ==
    IF val.t = "ref" THEN Keys(h, val.v)
    ELSE IF val.t = "str" THEN [i \in 1..Len(StrText(val.v)) |-> IdxKeys[i]]
    ELSE <<>>

\* val[name], val an object, a number or a string: of a string, under an
\* index, the character there, and its length; a number or a string has
\* what Number.prototype or String.prototype has or inherits
PropOf(h, val, name) ==
    IF val.t = "ref" THEN GetProp(h, val.v, name)
    ELSE IF val.t = "str" /\ IsIndexKey(name) /\ IndexOf(name) < Len(StrText(val.v))
    THEN VStr(StrId(SubSeq(StrText(val.v), IndexOf(name) + 1, IndexOf(name) + 1)))
    ELSE IF val.t = "str" /\ name = "length" THEN VNum(Len(StrText(val.v)))
    ELSE IF val.t \in {"str", "num"}
    THEN Lookup(h, PrototypeOf(h, val).v, name, val)
    ELSE VUndef

\* the heap after target[key] = val (strict mode), target any value:
\* TypeError of null and undefined, and of a number or a string, which take
\* no property, unless the key is __proto__ and leads to the accessor of
\* Object.prototype, whose setter returns at once for them
Assign(h, target, key, val) ==
    IF target.t = "ref" THEN SetProp(h, target.v, key, val)
    ELSE IF /\ target.t \in {"num", "str"}
            /\ key = "__proto__"
            /\ InChain(h, PrototypeOf(h, target).v, ObjectPrototype)
    THEN h
    ELSE Throw(h)

RECURSIVE deepMerge(_, _, _)

\* a plausible slip: the incoming value always replaces the target's
MergeKeyOverwrite(h, target, obj, key) == Assign(h, target, key, PropOf(h, obj, key))

\* one iteration of deepMerge's loop, target and obj any values but obj not
\* null: the heap after it; target[key] throws of null, and nothing is
\* assigned when the call on the right-hand side has thrown
MergeKey(h, target, obj, key) ==
    LET oldVal == PropOf(h, target, key)
        newVal == PropOf(h, obj, key)
    IN IF target.t \in {"null", "undef"} THEN Throw(h)
       ELSE IF IsArray(h, oldVal) /\ IsArray(h, newVal)
       THEN LET r == mergeArrayWithDedupe(h, oldVal.v, newVal.v)
            IN IF Thrown(r.h) THEN r.h ELSE Assign(r.h, target, key, r.v)
       ELSE IF isObject(oldVal) /\ isObject(newVal)
       THEN LET h1 == deepMerge(h, oldVal.v, newVal.v)
            IN IF Thrown(h1) THEN h1 ELSE Assign(h1, target, key, oldVal)
       ELSE Assign(h, target, key, newVal)

RECURSIVE MergeKeys(_, _, _, _)
\* the loop over Object.keys(obj), read once before the first iteration; a
\* throw ends it
MergeKeys(heap0, target, obj, ks) ==
    With(heap0, LAMBDA h :
        IF ks = <<>> \/ Thrown(h) THEN h
        ELSE MergeKeys(MergeKey(h, target, obj, Head(ks)), target, obj, Tail(ks)))

\* deepMerge(target, obj) between two objects: the heap after the call (the
\* call returns target)
deepMerge(h, target, obj) == MergeKeys(h, VRef(target), VRef(obj), Keys(h, obj))

----------------------------------------------------------------------------
(* Between text and heap *)

RECURSIVE Parse(_, _)
RECURSIVE ParseEntries(_, _, _)
\* JSON.parse: fresh objects, properties created in text order
Parse(h, tr) ==
    IF IsContainer(tr)
    THEN LET a == Len(h) + 1
             h0 == Append(h, IF tr.t = "arr" THEN EmptyArray ELSE NewObject)
         IN [h |-> ParseEntries(h0, a, tr.kv), v |-> VRef(a)]
    ELSE [h |-> h, v |-> IF tr.t = "num" THEN VNum(tr.n)
                         ELSE IF tr.t = "str" THEN VStr(tr.n)
                         ELSE VNull]

ParseEntries(heap0, a, kv) ==
    With(heap0, LAMBDA h :
        IF kv = <<>> THEN h
        ELSE With(Parse(h, Head(kv).val), LAMBDA r :
                 ParseEntries(DefineProp(r.h, a, Head(kv).k, r.v), a, Tail(kv))))

RECURSIVE Snapshot(_, _)
\* the structure reachable from a value: every own property, in Object.keys
\* order, and of an array its length
Snapshot(h, val) ==
    IF val.t = "ref" /\ h[val.v].arr
    THEN [t |-> "arr",
          kv |-> [i \in 1..Len(h[val.v].ents) |->
                     TEntry(h[val.v].ents[i].k, Snapshot(h, h[val.v].ents[i].v))],
          len |-> h[val.v].len]
    ELSE IF val.t = "ref"
    THEN [t |-> "obj",
          kv |-> [i \in 1..Len(h[val.v].ents) |->
                     TEntry(h[val.v].ents[i].k, Snapshot(h, h[val.v].ents[i].v))]]
    ELSE IF val.t = "num" THEN TNum(val.v)
    ELSE IF val.t = "str" THEN TStr(val.v)
    ELSE IF val.t = "null" THEN TNull
    ELSE TUndef

RECURSIVE Stringify(_, _)
\* JSON.stringify: of an array every index below its length (a hole or
\* undefined written as null) and no other property, of an object the
\* properties that are not undefined
Stringify(h, val) ==
    IF val.t = "ref" /\ h[val.v].arr
    THEN [t |-> "arr",
          kv |-> [i \in 1..Length(h, val.v) |->
                     TEntry(IdxKeys[i], Stringify(h, GetProp(h, val.v, IdxKeys[i])))],
          len |-> Length(h, val.v)]
    ELSE IF val.t = "ref"
    THEN LET kept == SelectSeq(h[val.v].ents, LAMBDA e : e.v.t # "undef")
         IN [t |-> "obj",
             kv |-> [i \in 1..Len(kept) |-> TEntry(kept[i].k, Stringify(h, kept[i].v))]]
    ELSE IF val.t = "num" THEN TNum(val.v)
    ELSE IF val.t = "str" THEN TStr(val.v)
    ELSE TNull

----------------------------------------------------------------------------
(* Input documents of the merge specification *)

RECURSIVE SeqsUpTo(_, _)
\* the sequences over S of length at most n
SeqsUpTo(S, n) ==
    IF n = 0 THEN {<<>>}
    ELSE LET shorter == SeqsUpTo(S, n - 1)
         IN shorter \cup {Append(s, x) : s \in {q \in shorter : Len(q) = n - 1}, x \in S}

Scalars == {TNum(n) : n \in 1..MaxNum} \cup {TNull}
\* what a sequence or a nested mapping may hold
Elems == Scalars \cup {TObj(<<TEntry("a", TNum(1))>>), TArr(<<TNum(1)>>)}
Arrays == {TArr(s) : s \in SeqsUpTo(Elems, MaxLen)}
\* the key "1", merged into a sequence, sets an index: past the end of an
\* empty sequence, leaving a hole; "length" is a property every sequence has,
\* "__proto__" one every mapping and sequence inherits
KeySeqs == {<<>>, <<"a">>, <<"b">>, <<"a", "b">>, <<"1">>, <<"length">>, <<"__proto__">>}
MaxKeys == Len(<<"a", "b">>)
MapsOver(ks) == {TObj([i \in 1..Len(ks) |-> TEntry(ks[i], vs[i])]) :
                    vs \in {q \in SeqsUpTo(Elems, MaxKeys) : Len(q) = Len(ks)}}
Maps == UNION {MapsOver(ks) : ks \in KeySeqs}
Values == Scalars \cup Arrays \cup Maps
Docs == {TObj(<<>>)}
        \cup {TObj(<<TEntry("x", v)>>) : v \in Values}
        \cup {TObj(<<TEntry("y", TNum(1)), TEntry("x", v)>>) : v \in Values}
\* incoming documents: a key "y" of the target is one the incoming never defines
IncomingDocs == {d \in Docs : ~THas(d, "y")}

----------------------------------------------------------------------------
(* The file system *)

\* A path is the sequence of names below the root directory, <<>> the root.
\* fs maps every path to "none", "file", "dir" or "link" (a symbolic link).

IsPrefix(p, q) == Len(p) <= Len(q) /\ SubSeq(q, 1, Len(p)) = p
Beneath(p, q) == IsPrefix(p, q) /\ q # p            \* q lies strictly below p
Parent(p) == SubSeq(p, 1, Len(p) - 1)
Basename(p) == p[Len(p)]
Entries(f) == {p \in DOMAIN f : p # <<>> /\ f[p] # "none"}
ChildrenOf(f, d) == {p \in Entries(f) : Parent(p) = d}

\* the working state of a traversal: the file system, the callbacks invoked,
\* the directories listed, and whether an exception has been thrown
Raise(S) == [S EXCEPT !.err = TRUE]
\* rm -rf p
RemoveTree(f, p) == [q \in DOMAIN f |-> IF IsPrefix(p, q) THEN "none" ELSE f[q]]

\* Path resolution.  A path names the entry reached by following the
\* symbolic links among its names; Nowhere stands for a path that leads to
\* no entry (a chain of more than MaxLinkHops links counts as a loop).
Nowhere == <<"?">>
KindAt(f, q) == IF q \in DOMAIN f THEN f[q] ELSE "none"

RECURSIVE Real(_, _, _, _)
RECURSIVE Follow(_, _, _, _)
\* the entry q, or where it leads when it is a symbolic link
Follow(f, t, q, hops) ==
    IF KindAt(f, q) # "link" THEN q
    ELSE IF hops = 0 THEN Nowhere
    ELSE Real(f, t, t[q], hops - 1)
\* the entry path p names, every link followed (fs.statSync, fs.readdirSync)
Real(f, t, p, hops) ==
    IF p = <<>> THEN <<>>
    ELSE Follow(f, t, Append(Real(f, t, Parent(p), hops), Basename(p)), hops)
\* the entry path p names, its last name not followed (fs.lstatSync, unlink, rmdir)
OwnEntry(S, p) ==
    IF p = <<>> THEN <<>>
    ELSE Append(Real(S.fs, S.linkTo, Parent(p), MaxLinkHops), Basename(p))

\* the callback which is invoked on p; empty tells whether the directory p
\* leads to then holds nothing
Logged(S, which, p) ==
    [S EXCEPT !.log = Append(@, [cb |-> which, p |-> p,
                                  empty |-> ChildrenOf(S.fs, Real(S.fs, S.linkTo, p, MaxLinkHops)) = {}])]

\* a plausible slip: fs.statSync, which follows a link to what it points at
statSyncKind(S, p) == KindAt(S.fs, Real(S.fs, S.linkTo, p, MaxLinkHops))

\* fs.lstatSync(p): the kind of the entry itself, "none" when it throws
lstatSyncKind(S, p) == KindAt(S.fs, OwnEntry(S, p))

\* fs.existsSync(p): follows links
existsSync(S, p) == KindAt(S.fs, Real(S.fs, S.linkTo, p, MaxLinkHops)) # "none"

\* fs.rmdirSync(p): throws unless p is an empty directory
rmdirSync(S, p) ==
    LET q == OwnEntry(S, p)
    IN IF KindAt(S.fs, q) # "dir" \/ ChildrenOf(S.fs, q) # {} THEN Raise(S)
       ELSE [S EXCEPT !.fs[q] = "none"]

\* fs.unlinkSync(p): removes a file or a symbolic link, throws on anything else
unlinkSync(S, p) ==
    LET q == OwnEntry(S, p)
    IN IF KindAt(S.fs, q) \notin {"file", "link"} THEN Raise(S)
       ELSE [S EXCEPT !.fs[q] = "none"]

\* fs.readdirSync(dir) of a directory, or of a link to one
IsListable(S, dir) == KindAt(S.fs, Real(S.fs, S.linkTo, dir, MaxLinkHops)) = "dir"

\* fs.readdirSync(dir): the names in dir, in the order ord lists them
Listing(f, dir, ord) ==
    SelectSeq(ord, LAMBDA n : Append(dir, n) \in DOMAIN f /\ f[Append(dir, n)] # "none")
readdirSync(S, dir, ord) == Listing(S.fs, Real(S.fs, S.linkTo, dir, MaxLinkHops), ord)

----------------------------------------------------------------------------
(* Callbacks handed to the traversals *)

Noop == [kind |-> "noop", victims |-> {}, at |-> <<>>, target |-> <<>>, ord |-> <<>>]
\* onDirectory removes the directory it is given when it is one of victims
RemoveGiven(victims) ==
    [kind |-> "rmgiven", victims |-> victims, at |-> <<>>, target |-> <<>>, ord |-> <<>>]
\* the callback invoked on at removes target
RemoveAt(at, target) ==
    [kind |-> "rmat", victims |-> {}, at |-> at, target |-> target, ord |-> <<>>]
\* emptyDir's callbacks: (dir) => fs.rmdirSync(dir), (file) => fs.unlinkSync(file)
EmptyDirCallbacks ==
    [kind |-> "empty", victims |-> {}, at |-> <<>>, target |-> <<>>, ord |-> <<>>]
\* init's callbacks when tests were declined; ord is the order in which the
\* directories emptyDir lists come back
PruneCallbacks(ord) ==
    [kind |-> "prune", victims |-> {}, at |-> <<>>, target |-> <<>>, ord |-> ord]
\* init's callbacks when TypeScript was chosen
RenameCallbacks ==
    [kind |-> "rename", victims |-> {}, at |-> <<>>, target |-> <<>>, ord |-> <<>>]

EndsWith(name, suffix) ==
    Len(name) >= Len(suffix) /\ SubSeq(name, Len(name) - Len(suffix) + 1, Len(name)) = suffix
\* name.replace(/suffix$/, by)
ReplaceSuffix(name, suffix, by) == SubSeq(name, 1, Len(name) - Len(suffix)) \o by

\* the path p is at once the tree at q has moved to n
Moved(p, q, n) == n \o SubSeq(p, Len(q) + 1, Len(p))

\* fs.renameSync(old, new) (POSIX).  A file or a symbolic link replaces new
\* unless new is a directory; a link moves as a link, with the path it
\* holds.  A directory moves with all beneath it, to a free name or onto an
\* empty directory, not into itself.  The paths of the model hold every path
\* an entry moves to.
renameSync(S, old, new) ==
    LET q == OwnEntry(S, old)
        n == OwnEntry(S, new)
        k == KindAt(S.fs, q)
    IN IF \/ k = "none"
          \/ n \notin DOMAIN S.fs
          \/ KindAt(S.fs, Parent(n)) # "dir"
       THEN Raise(S)                                             \* ENOENT, ENOTDIR
       ELSE IF q = n THEN S
       ELSE IF k \in {"file", "link"}
       THEN IF KindAt(S.fs, n) = "dir" THEN Raise(S)             \* EISDIR
            ELSE [S EXCEPT !.fs = [@ EXCEPT ![q] = "none", ![n] = k],
                           !.linkTo = [@ EXCEPT ![q] = <<>>, ![n] = S.linkTo[q]]]
       ELSE IF \/ KindAt(S.fs, n) \in {"file", "link"}           \* ENOTDIR
               \/ ChildrenOf(S.fs, n) # {}                       \* ENOTEMPTY
               \/ IsPrefix(q, n)                                 \* EINVAL
               \/ \E p \in Entries(S.fs) : IsPrefix(q, p) /\ Moved(p, q, n) \notin DOMAIN S.fs
       THEN Raise(S)
       ELSE [S EXCEPT
               !.fs = [p \in DOMAIN S.fs |->
                         IF IsPrefix(n, p) /\ Moved(p, n, q) \in DOMAIN S.fs
                         THEN S.fs[Moved(p, n, q)]
                         ELSE IF IsPrefix(n, p) \/ IsPrefix(q, p) THEN "none" ELSE S.fs[p]],
               !.linkTo = [p \in DOMAIN S.linkTo |->
                             IF IsPrefix(n, p) /\ Moved(p, n, q) \in DOMAIN S.linkTo
                             THEN S.linkTo[Moved(p, n, q)]
                             ELSE IF IsPrefix(q, p) THEN <<>> ELSE S.linkTo[p]]]

RECURSIVE postOrderDirectoryTraverse(_, _, _, _)

\* a plausible slip: the directory removed without being emptied first
PruneDirNoEmpty(S, dirpath, ord) ==
    IF Basename(dirpath) \in {"cypress", "__tests__"} THEN rmdirSync(S, dirpath) ELSE S

\* index.js: the onDirectory callback of the prune
PruneDir(S, dirpath, ord) ==
    IF Basename(dirpath) \in {"cypress", "__tests__"}
    THEN LET S1 == postOrderDirectoryTraverse(S, dirpath, EmptyDirCallbacks, ord)  \* emptyDir(dirpath)
             \* the log and the listing are those of the traversal that prunes
             S2 == [S1 EXCEPT !.log = S.log, !.listed = S.listed]
         IN IF S2.err THEN S2 ELSE rmdirSync(S2, dirpath)
    ELSE S

\* a plausible slip: jsconfig.json left as it is
RenameFileOnlyJs(S, filepath) ==
    IF EndsWith(Basename(filepath), ".js")
    THEN renameSync(S, filepath,
                    Append(Parent(filepath), ReplaceSuffix(Basename(filepath), ".js", ".ts")))
    ELSE S

\* index.js: the onFile callback of the rename
RenameFile(S, filepath) ==
    IF EndsWith(Basename(filepath), ".js")
    THEN renameSync(S, filepath,
                    Append(Parent(filepath), ReplaceSuffix(Basename(filepath), ".js", ".ts")))
    ELSE IF Basename(filepath) = "jsconfig.json"
    THEN renameSync(S, filepath, Append(Parent(filepath), "tsconfig.json"))
    ELSE S

dirCallback(cb, S, p) ==
    LET S0 == Logged(S, "dir", p)
    IN CASE cb.kind = "rmgiven" ->
                IF p \in cb.victims THEN [S0 EXCEPT !.fs = RemoveTree(@, p)] ELSE S0
         [] cb.kind = "rmat" ->
                IF p = cb.at THEN [S0 EXCEPT !.fs = RemoveTree(@, cb.target)] ELSE S0
         [] cb.kind = "empty" -> rmdirSync(S0, p)
         [] cb.kind = "prune" -> PruneDir(S0, p, cb.ord)
         [] OTHER -> S0

fileCallback(cb, S, p) ==
    LET S0 == Logged(S, "file", p)
    IN CASE cb.kind = "rmat" ->
                IF p = cb.at THEN [S0 EXCEPT !.fs = RemoveTree(@, cb.target)] ELSE S0
         [] cb.kind = "empty" -> unlinkSync(S0, p)
         [] cb.kind = "rename" -> RenameFile(S0, p)
         [] OTHER -> S0

----------------------------------------------------------------------------
(* utils/directoryTraverse.js *)

RECURSIVE preOrderDirectoryTraverse(_, _, _, _)

\* a plausible slip: descending without checking the directory is still there
PreVisitDirNoRecheck(S, fullpath, cb, ord) ==
    LET S1 == dirCallback(cb, S, fullpath)
    IN IF S1.err THEN S1 ELSE preOrderDirectoryTraverse(S1, fullpath, cb, ord)

\* the directory branch of the pre-order loop
PreVisitDir(S, fullpath, cb, ord) ==
    LET S1 == dirCallback(cb, S, fullpath)
    IN IF S1.err THEN S1
       ELSE IF existsSync(S1, fullpath)
       THEN preOrderDirectoryTraverse(S1, fullpath, cb, ord)
       ELSE S1

RECURSIVE PreLoop(_, _, _, _, _)

\* a plausible slip: a name that is gone is skipped instead of lstat throwing
PreLoopSkipMissing(S, dir, names, cb, ord) ==
    IF S.err \/ names = <<>> THEN S
    ELSE LET fullpath == Append(dir, Head(names))
         IN IF lstatSyncKind(S, fullpath) = "none" THEN PreLoop(S, dir, Tail(names), cb, ord)
            ELSE IF lstatSyncKind(S, fullpath) = "dir"
            THEN PreLoop(PreVisitDir(S, fullpath, cb, ord), dir, Tail(names), cb, ord)
            ELSE PreLoop(fileCallback(cb, S, fullpath), dir, Tail(names), cb, ord)

\* the loop over the names readdirSync returned
PreLoop(S, dir, names, cb, ord) ==
    IF S.err \/ names = <<>> THEN S
    ELSE LET fullpath == Append(dir, Head(names))
         IN IF lstatSyncKind(S, fullpath) = "none" THEN Raise(S)
            ELSE IF lstatSyncKind(S, fullpath) = "dir"
            THEN PreLoop(PreVisitDir(S, fullpath, cb, ord), dir, Tail(names), cb, ord)
            ELSE PreLoop(fileCallback(cb, S, fullpath), dir, Tail(names), cb, ord)

preOrderDirectoryTraverse(S, dir, cb, ord) ==
    IF ~IsListable(S, dir) THEN Raise(S)                      \* fs.readdirSync throws
    ELSE PreLoop([S EXCEPT !.listed = Append(@, dir)], dir, readdirSync(S, dir, ord), cb, ord)

\* a plausible slip: the directory callback before the descent
PostVisitDirCallbackFirst(S, fullpath, cb, ord) ==
    LET S1 == dirCallback(cb, S, fullpath)
    IN IF S1.err THEN S1 ELSE postOrderDirectoryTraverse(S1, fullpath, cb, ord)

\* a plausible slip: no descent into a directory
PostVisitDirNoDescent(S, fullpath, cb, ord) == dirCallback(cb, S, fullpath)

\* the directory branch of the post-order loop
PostVisitDir(S, fullpath, cb, ord) ==
    LET S1 == postOrderDirectoryTraverse(S, fullpath, cb, ord)
    IN IF S1.err THEN S1 ELSE dirCallback(cb, S1, fullpath)

RECURSIVE PostLoop(_, _, _, _, _)
PostLoop(S, dir, names, cb, ord) ==
    IF S.err \/ names = <<>> THEN S
    ELSE LET fullpath == Append(dir, Head(names))
         IN IF lstatSyncKind(S, fullpath) = "none" THEN Raise(S)
            ELSE IF lstatSyncKind(S, fullpath) = "dir"
            THEN PostLoop(PostVisitDir(S, fullpath, cb, ord), dir, Tail(names), cb, ord)
            ELSE PostLoop(fileCallback(cb, S, fullpath), dir, Tail(names), cb, ord)

postOrderDirectoryTraverse(S, dir, cb, ord) ==
    IF ~IsListable(S, dir) THEN Raise(S)                      \* fs.readdirSync throws
    ELSE PostLoop([S EXCEPT !.listed = Append(@, dir)], dir, readdirSync(S, dir, ord), cb, ord)

\* index.js emptyDir(dir)
emptyDir(S, dir, ord) == postOrderDirectoryTraverse(S, dir, EmptyDirCallbacks, ord)

----------------------------------------------------------------------------
(* utils/sortDependencies.js *)

depTypes == <<"dependencies", "devDependencies", "peerDependencies", "optionalDependencies">>

\* the keys of the model in the order Array.prototype.sort puts them (UTF-16
\* code units): digits before lower-case letters
CodeUnitOrder == IdxKeys \o <<"a", "b", "c">>
Rank(k) == CHOOSE i \in 1..Len(CodeUnitOrder) : CodeUnitOrder[i] = k

RECURSIVE Sorted(_)
\* keys.sort()
Sorted(keys) ==
    IF keys = <<>> THEN <<>>
    ELSE LET least == CHOOSE i \in 1..Len(keys) :
                          \A j \in 1..Len(keys) : Rank(keys[i]) <= Rank(keys[j])
         IN <<keys[least]>> \o
            Sorted(SubSeq(keys, 1, least - 1) \o SubSeq(keys, least + 1, Len(keys)))

\* if (packageJson[depType]): null, undefined, 0 and '' are falsy
Truthy(val) == val.t \in {"ref", "str"} \/ (val.t = "num" /\ val.v # 0)

RECURSIVE AssignProps(_, _, _, _)
\* to[name] = from[name] for each of names, in that order, from any value:
\* the forEach (sorted[depType][name] = packageJson[depType][name])
AssignProps(heap0, to, from, names) ==
    With(heap0, LAMBDA h :
        IF names = <<>> \/ Thrown(h) THEN h
        ELSE AssignProps(SetProp(h, to, Head(names), PropOf(h, from, Head(names))),
                         to, from, Tail(names)))

RECURSIVE SpreadProps(_, _, _, _)
\* { ...from } into the object to: each own property of from created on to
SpreadProps(heap0, to, from, names) ==
    With(heap0, LAMBDA h :
        IF names = <<>> THEN h
        ELSE SpreadProps(DefineProp(h, to, Head(names), PropOf(h, from, Head(names))),
                         to, from, Tail(names)))

\* a plausible slip: the keys copied in the order they have
SortedDepNoSort(h, dep) ==
    LET h0 == Append(h, NewObject)
        a == Len(h) + 1
    IN [h |-> AssignProps(h0, a, dep, KeysOf(h, dep)), v |-> VRef(a)]

\* sorted[depType] = {} and the forEach filling it
SortedDep(h, dep) ==
    LET h0 == Append(h, NewObject)
        a == Len(h) + 1
    IN [h |-> AssignProps(h0, a, dep, Sorted(KeysOf(h, dep))), v |-> VRef(a)]

RECURSIVE SortTypes(_, _, _, _)
\* the loop over depTypes, filling the object sorted
SortTypes(heap0, sorted, packageJson, types) ==
    With(heap0, LAMBDA h :
        IF types = <<>> THEN h
        ELSE LET dep == PropOf(h, packageJson, Head(types))
             IN IF Truthy(dep)
                THEN With(SortedDep(h, dep), LAMBDA r :
                         SortTypes(SetProp(r.h, sorted, Head(types), r.v),
                                   sorted, packageJson, Tail(types)))
                ELSE SortTypes(h, sorted, packageJson, Tail(types)))

\* sortDependencies(packageJson), packageJson any value but null (of null,
\* packageJson[depType] throws): { ...packageJson, ...sorted }, a new object;
\* the spread of a number has no property, that of a string its characters
sortDependencies(h, packageJson) ==
    LET sorted == Len(h) + 1
        h1 == SortTypes(Append(h, NewObject), sorted, packageJson, depTypes)
        result == Len(h1) + 1
        h2 == Append(h1, NewObject)
        h3 == SpreadProps(h2, result, packageJson, KeysOf(h2, packageJson))
    IN [h |-> SpreadProps(h3, result, VRef(sorted), Keys(h3, sorted)), v |-> VRef(result)]

\* deepMerge(target, obj), target and obj any values: the heap after the
\* call.  Object.keys(null) throws; the characters of a string are no
\* objects, so each is assigned
deepMergeOf(h, target, obj) ==
    IF obj.t \in {"null", "undef"} THEN Throw(h)
    ELSE MergeKeys(h, target, obj, KeysOf(h, obj))

\* whether deepMerge(target, obj) throws, target and obj any values
deepMergeThrows(h, target, obj) == Thrown(deepMergeOf(h, target, obj))

----------------------------------------------------------------------------
(* utils/renderTemplate.js *)

\* the content of a file: JSON text (the document it denotes and how it is
\* laid out) or other bytes, known by the path they were first at
NoData == [json |-> FALSE, doc |-> TNull, fmt |-> "none", origin |-> <<>>]
Bytes(p) == [json |-> FALSE, doc |-> TNull, fmt |-> "raw", origin |-> p]
JsonText(doc, fmt) == [json |-> TRUE, doc |-> doc, fmt |-> fmt, origin |-> <<>>]

\* fs.statSync(p): the kind of the entry p leads to, links followed; "none"
\* when it throws
statSync(R, p) == KindAt(R.fs, Real(R.fs, R.linkTo, p, MaxLinkHops))

RECURSIVE MakeDirs(_, _, _)
\* the directories names, one below the other from the directory at, made
\* where missing; a link to a directory is passed through
MakeDirs(R, at, names) ==
    IF names = <<>> THEN R
    ELSE LET q == Append(at, Head(names))
             kind == KindAt(R.fs, q)
             led == Follow(R.fs, R.linkTo, q, MaxLinkHops)
         IN IF q \notin DOMAIN R.fs THEN Raise(R)
            ELSE IF kind = "dir" THEN MakeDirs(R, q, Tail(names))
            ELSE IF kind = "none" THEN MakeDirs([R EXCEPT !.fs[q] = "dir"], q, Tail(names))
            ELSE IF kind = "link" /\ KindAt(R.fs, led) = "dir" THEN MakeDirs(R, led, Tail(names))
            ELSE Raise(R)                       \* a file, or a link to none or to a file

\* fs.mkdirSync(dest, { recursive: true })
mkdirSync(R, dest) == MakeDirs(R, <<>>, dest)

\* a plausible slip: the source moved instead of copied
copyFileSyncMoving(R, src, dest) ==
    LET s == Real(R.fs, R.linkTo, src, MaxLinkHops)
        d == Real(R.fs, R.linkTo, dest, MaxLinkHops)
    IN IF \/ KindAt(R.fs, s) # "file"
          \/ d \notin DOMAIN R.fs
          \/ KindAt(R.fs, d) = "dir"
          \/ KindAt(R.fs, Parent(d)) # "dir"
       THEN Raise(R)
       ELSE [R EXCEPT !.fs = [@ EXCEPT ![d] = "file", ![s] = "none"],
                      !.data = [@ EXCEPT ![d] = R.data[s], ![s] = NoData],
                      !.reads = @ \cup {src}, !.writes = @ \cup {dest}]

\* fs.copyFileSync(src, dest): both paths are followed through links, so the
\* bytes are those src leads to and they are written where dest leads to
copyFileSync(R, src, dest) ==
    LET s == Real(R.fs, R.linkTo, src, MaxLinkHops)
        d == Real(R.fs, R.linkTo, dest, MaxLinkHops)
    IN IF \/ KindAt(R.fs, s) # "file"
          \/ d \notin DOMAIN R.fs
          \/ KindAt(R.fs, d) = "dir"
          \/ KindAt(R.fs, Parent(d)) # "dir"
       THEN Raise(R)
       ELSE [R EXCEPT !.fs[d] = "file", !.data[d] = R.data[s],
                      !.reads = @ \cup {src}, !.writes = @ \cup {dest}]

StartsWith(name, c) == Len(name) >= 1 /\ SubSeq(name, 1, 1) = c
\* a plausible slip: the name kept as it is
DotNameKept(name) == name

\* filename.replace(/^_/, '.')
DotName(name) == IF StartsWith(name, "_") THEN "." \o SubSeq(name, 2, Len(name)) ELSE name

\* a plausible slip: the template merged under the existing manifest
MergeManifestReversed(R, src, dest) ==
    LET d == Real(R.fs, R.linkTo, dest, MaxLinkHops)
        s == Real(R.fs, R.linkTo, src, MaxLinkHops)
    IN IF KindAt(R.fs, d) # "file" THEN Raise(R)
       ELSE IF ~R.data[d].json THEN Raise([R EXCEPT !.reads = @ \cup {dest}])
       ELSE IF KindAt(R.fs, s) # "file" THEN Raise([R EXCEPT !.reads = @ \cup {dest}])
       ELSE IF ~R.data[s].json THEN Raise([R EXCEPT !.reads = @ \cup {dest, src}])
       ELSE LET existing == Parse(Heap0, R.data[d].doc)
                newPackage == Parse(existing.h, R.data[s].doc)
                merged == deepMergeOf(newPackage.h, newPackage.v, existing.v)
                pkg == sortDependencies(merged, newPackage.v)
            IN IF Thrown(merged) \/ newPackage.v.t = "null"
               THEN Raise([R EXCEPT !.reads = @ \cup {dest, src}])
               ELSE
               [R EXCEPT !.data[d] = JsonText(Stringify(pkg.h, pkg.v), "indent2nl"),
                         !.reads = @ \cup {dest, src}, !.writes = @ \cup {dest}]

\* the manifest branch: merge instead of overwriting
MergeManifest(R, src, dest) ==
    LET d == Real(R.fs, R.linkTo, dest, MaxLinkHops)
        s == Real(R.fs, R.linkTo, src, MaxLinkHops)
    IN IF KindAt(R.fs, d) # "file" THEN Raise(R)        \* fs.readFileSync(dest) throws
       ELSE IF ~R.data[d].json                          \* JSON.parse throws
       THEN Raise([R EXCEPT !.reads = @ \cup {dest}])
       ELSE IF KindAt(R.fs, s) # "file"                 \* fs.readFileSync(src) throws
       THEN Raise([R EXCEPT !.reads = @ \cup {dest}])
       ELSE IF ~R.data[s].json                          \* JSON.parse throws
       THEN Raise([R EXCEPT !.reads = @ \cup {dest, src}])
       ELSE LET existing == Parse(Heap0, R.data[d].doc)
                newPackage == Parse(existing.h, R.data[s].doc)
                merged == deepMergeOf(newPackage.h, existing.v, newPackage.v)
                pkg == sortDependencies(merged, existing.v)
            IN IF \/ Thrown(merged)                \* deepMerge throws
                  \/ existing.v.t = "null"         \* sortDependencies(null) throws
               THEN Raise([R EXCEPT !.reads = @ \cup {dest, src}])
               ELSE
               [R EXCEPT !.data[d] = JsonText(Stringify(pkg.h, pkg.v), "indent2nl"),
                         !.reads = @ \cup {dest, src}, !.writes = @ \cup {dest}]

\* the file branch of renderTemplate
RenderFile(R, src, dest) ==
    LET filename == Basename(src)
    IN IF filename = "package.json" /\ existsSync(R, dest)
       THEN MergeManifest(R, src, dest)
       ELSE IF StartsWith(filename, "_")
       THEN copyFileSync(R, src, Append(Parent(dest), DotName(filename)))
       ELSE copyFileSync(R, src, dest)

RECURSIVE renderTemplate(_, _, _, _)
RECURSIVE RenderChildren(_, _, _, _, _)
\* the loop over fs.readdirSync(src)
RenderChildren(R, src, dest, names, ord) ==
    IF R.err \/ names = <<>> THEN R
    ELSE RenderChildren(renderTemplate(R, Append(src, Head(names)), Append(dest, Head(names)), ord),
                        src, dest, Tail(names), ord)

renderTemplate(R, src, dest, ord) ==
    IF R.err THEN R
    ELSE IF statSync(R, src) = "none" THEN Raise(R)                 \* fs.statSync throws
    ELSE IF statSync(R, src) = "dir"
    THEN LET R1 == mkdirSync(R, dest)
         IN IF R1.err THEN R1
            ELSE RenderChildren(R1, src, dest, readdirSync(R1, src, ord), ord)
    ELSE RenderFile(R, src, dest)

----------------------------------------------------------------------------
(* index.js init(): building the project root *)

TemplateRoot == <<"tpl">>      \* path.resolve(templateRoot, 'base')
ProjectRoot == <<"out">>       \* root = path.join(cwd, targetDir)

\* !fs.existsSync(dir) || fs.readdirSync(dir).length === 0: "true", "false",
\* or "throws" when dir leads to an entry that is no directory (readdirSync)
canSafelyOverwrite(f, dir) ==
    LET led == Real(f, linkTo, dir, MaxLinkHops)
    IN IF KindAt(f, led) = "none" THEN "true"
       ELSE IF KindAt(f, led) # "dir" THEN "throws"
       ELSE IF ChildrenOf(f, led) = {} THEN "true" ELSE "false"

\* type() of the question shouldOverwrite:
\* canSafelyOverwrite(targetDir) || forceOverwrite ? null : 'confirm'; the
\* question is skipped when overwriting is safe or forced; "throws" when
\* canSafelyOverwrite throws, which rejects the prompts
ShouldOverwriteType(f, force) ==
    IF canSafelyOverwrite(f, ProjectRoot) = "throws" THEN "throws"
    ELSE IF canSafelyOverwrite(f, ProjectRoot) = "true" \/ force THEN "null"
    ELSE "confirm"

\* if (shouldOverwrite) emptyDir(root) else if (!fs.existsSync(root)) fs.mkdirSync(root)
BuildRoot(f, shouldOverwrite, ord) ==
    LET S == [fs |-> f, linkTo |-> linkTo, log |-> <<>>, listed |-> <<>>, err |-> FALSE]
    IN IF shouldOverwrite = "true" THEN emptyDir(S, ProjectRoot, ord)
       ELSE IF existsSync(S, ProjectRoot) THEN S
       ELSE IF KindAt(f, ProjectRoot) = "none"
       THEN [S EXCEPT !.fs[ProjectRoot] = "dir"]                  \* fs.mkdirSync(root)
       ELSE Raise(S)                               \* a link that leads nowhere is in the way

\* the content left once entries are gone
DataOn(f, d) == [p \in DOMAIN f |-> IF f[p] = "file" THEN d[p] ELSE NoData]

\* pkg = { name: packageName, version: '0.0.0' }
InitialPkg == TObj(<<TEntry("name", TStr(1)), TEntry("version", TStr(2))>>)

----------------------------------------------------------------------------
(* Input trees of the render and init specifications *)

\* the one name that is a directory's; every other name is a file's
DirName == "_d"
TemplateNames == {"package.json", "_a_b", "f", DirName}
ProjectNames == {"package.json", ".a_b", "f", DirName}
RenderNames == TemplateNames \cup ProjectNames
RenderPaths ==
    {<<>>, TemplateRoot, ProjectRoot}
    \cup {<<r, n>> : r \in {"tpl", "out"}, n \in RenderNames}
    \cup {<<r, DirName, n>> : r \in {"tpl", "out"}, n \in RenderNames \ {DirName}}
\* the orders in which a directory is listed
RenderOrders == {<<"package.json", "_a_b", ".a_b", "f", DirName>>,
                 <<DirName, "f", ".a_b", "_a_b", "package.json">>}

RenderBase(outKind) ==
    [p \in RenderPaths |-> IF p \in {<<>>, TemplateRoot} THEN "dir"
                           ELSE IF p = ProjectRoot THEN outKind ELSE "none"]
MayHold(p) ==
    /\ Len(p) >= 2
    /\ Basename(p) \in (IF p[1] = "tpl" THEN TemplateNames ELSE ProjectNames)

RECURSIVE RenderTreesUpTo(_)
\* the template and project trees of at most n entries together
RenderTreesUpTo(n) ==
    IF n = 0 THEN {RenderBase("none"), RenderBase("dir"), RenderBase("file")}
    ELSE LET smaller == RenderTreesUpTo(n - 1)
         IN smaller \cup
            UNION {{[f EXCEPT ![p] = IF Basename(p) = DirName THEN "dir" ELSE "file"] :
                       p \in {q \in RenderPaths : MayHold(q) /\ f[q] = "none" /\ f[Parent(q)] = "dir"}}
                   : f \in smaller}
RenderTrees == RenderTreesUpTo(MaxRenderEntries)

\* manifests: the mapping fields of one document all hold the keys ks
FieldKeys == {<<"a">>, <<"b">>, <<"b", "a">>}
FieldMap(ks, v) == TObj([i \in 1..Len(ks) |-> TEntry(ks[i], v)])
TopKeys == {<<"dependencies">>, <<"scripts", "dependencies">>, <<"dependencies", "scripts">>,
            <<"optionalDependencies", "devDependencies", "peerDependencies">>}
PkgDocs(v) ==
    {TObj(<<>>), TObj(<<TEntry("name", v)>>)}
    \cup {TObj([i \in 1..Len(top) |-> TEntry(top[i], FieldMap(ks, v))]) :
             top \in TopKeys, ks \in FieldKeys}

HasManifest(f, root) == \E p \in Entries(f) : p[1] = root /\ Basename(p) = "package.json"
InputData(f, srcDoc, dstDoc) ==
    [p \in RenderPaths |->
        IF f[p] # "file" THEN NoData
        ELSE IF Basename(p) = "package.json"
        THEN IF p[1] = "tpl" THEN JsonText(srcDoc, "raw") ELSE JsonText(dstDoc, "indent2")
        ELSE Bytes(p)]

NoRender == [n |-> 0, ord |-> <<>>, beforeFs |-> RenderBase("none"),
             beforeData |-> [p \in RenderPaths |-> NoData],
             reads |-> {}, writes |-> {}, err |-> FALSE]
\* init() as it runs: its position, --force, what prompts() has as
\* shouldOverwrite, the file system when it began, and how often another
\* process has changed the project root since
NoInit == [pc |-> "off", force |-> FALSE, shouldOverwrite |-> "undefined",
           before |-> RenderBase("none"), touched |-> 0]
\* the files another process makes or removes while init() awaits the user
TouchPaths == {<<"out", "f">>, <<"out", DirName, "f">>}

\* the variables of the render and init specifications, when neither runs
RenderIdle ==
    /\ data = <<>>
    /\ rrun = NoRender
    /\ ini = NoInit

----------------------------------------------------------------------------
(* The traversal specification: traversals of a directory tree *)

Names == {"a", "b"}
Paths == UNION {[1..n -> Names] : n \in 0..MaxDepth}
Orders == {s \in [1..Cardinality(Names) -> Names] : \A i, j \in DOMAIN s : s[i] = s[j] => i = j}
EmptyRoot == [p \in Paths |-> IF p = <<>> THEN "dir" ELSE "none"]

RECURSIVE TreesUpTo(_)
\* the directory trees of at most n entries
TreesUpTo(n) ==
    IF n = 0 THEN {EmptyRoot}
    ELSE LET smaller == TreesUpTo(n - 1)
         IN smaller \cup
            UNION {{[f EXCEPT ![p] = k] :
                       p \in {q \in Paths \ {<<>>} : f[q] = "none" /\ f[Parent(q)] = "dir"},
                       k \in {"file", "dir", "link"}} : f \in smaller}
Trees == TreesUpTo(MaxEntries)

\* every symbolic link holding the path of the root directory
NoTargets == [p \in Paths |-> <<>>]

\* a traversal as it went: before and held are the file system and the paths
\* its links held when it began
NoRun == [op |-> "none", cb |-> Noop, ord |-> <<>>, before |-> EmptyRoot, held |-> NoTargets,
          log |-> <<>>, listed |-> <<>>, err |-> FALSE]
Start(f) == [fs |-> f, linkTo |-> linkTo, log |-> <<>>, listed |-> <<>>, err |-> FALSE]
RunOf(op, cb, ord, f, S) ==
    [op |-> op, cb |-> cb, ord |-> ord, before |-> f, held |-> linkTo,
     log |-> S.log, listed |-> S.listed, err |-> S.err]

\* what a caller may pass to the pre-order traversal
PreCallbacks(f) ==
    {Noop}
    \cup {RemoveGiven(v) : v \in SUBSET {p \in Entries(f) : f[p] = "dir"} \ {{}}}
    \cup {RemoveAt(p, q) : p \in Entries(f), q \in Entries(f)}

\* the variables of the merge specification, when no document is merged
MergeIdle ==
    /\ heap = <<>>
    /\ tgt = VNull
    /\ inc = <<>>
    /\ docT = TNull
    /\ docB = <<>>
    /\ hist = <<>>
    /\ used = <<>>

TraverseIdle ==
    /\ linkTo = NoTargets
    /\ run = NoRun
    /\ prevRun = NoRun

TraverseInit ==
    /\ fs \in Trees
    /\ linkTo = NoTargets
    /\ run = NoRun
    /\ prevRun = NoRun
    /\ MergeIdle
    /\ RenderIdle

\* two traversals at most, the second only of a tree the first left as it was
MayTraverse == prevRun.op = "none" /\ ~run.err /\ (run.op # "none" => run.before = fs)

PreOrder(cb, ord) ==
    /\ MayTraverse
    /\ LET S == preOrderDirectoryTraverse(Start(fs), <<>>, cb, ord)
       IN /\ fs' = S.fs
          /\ run' = RunOf("pre", cb, ord, fs, S)
    /\ prevRun' = run
    /\ UNCHANGED <<mergeVars, renderVars, linkTo>>

PostOrder(cb, ord) ==
    /\ MayTraverse
    /\ LET S == postOrderDirectoryTraverse(Start(fs), <<>>, cb, ord)
       IN /\ fs' = S.fs
          /\ run' = RunOf("post", cb, ord, fs, S)
    /\ prevRun' = run
    /\ UNCHANGED <<mergeVars, renderVars, linkTo>>

EmptyDir(ord) ==
    /\ MayTraverse
    /\ LET S == emptyDir(Start(fs), <<>>, ord)
       IN /\ fs' = S.fs
          /\ run' = RunOf("post", EmptyDirCallbacks, ord, fs, S)
    /\ prevRun' = run
    /\ UNCHANGED <<mergeVars, renderVars, linkTo>>

TraverseNext ==
    \/ \E cb \in PreCallbacks(fs), ord \in Orders : PreOrder(cb, ord)
    \/ \E ord \in Orders : PostOrder(Noop, ord)
    \/ \E ord \in Orders : EmptyDir(ord)

SpecTraverse == TraverseInit /\ [][TraverseNext]_vars

----------------------------------------------------------------------------
(* The link specification: traversals of a directory holding symbolic links *)

LinkDir == <<"a">>                      \* the directory traversed
Outside == {p \in Paths : ~IsPrefix(LinkDir, p)}
Links(f) == {p \in Entries(f) : f[p] = "link"}
\* trees in which LinkDir is a directory with a link somewhere in it, and
\* every link is in it
LinkTrees ==
    {f \in TreesUpTo(MaxEntries + 1) :
        /\ f[LinkDir] = "dir"
        /\ Links(f) # {}
        /\ \A p \in Links(f) : Beneath(LinkDir, p)}
\* what the links hold: the path of an entry outside LinkDir, or of none
LinkTargets == {p \in Outside : p # <<>> /\ Len(p) <= 2}

LinkInit ==
    /\ fs \in LinkTrees
    /\ \E t \in LinkTargets : linkTo = [p \in Paths |-> t]
    /\ run = NoRun
    /\ prevRun = NoRun
    /\ MergeIdle
    /\ RenderIdle

LinkPreOrder(ord) ==
    /\ run.op = "none"
    /\ LET S == preOrderDirectoryTraverse(Start(fs), LinkDir, Noop, ord)
       IN /\ fs' = S.fs
          /\ run' = RunOf("pre", Noop, ord, fs, S)
    /\ UNCHANGED <<mergeVars, renderVars, linkTo, prevRun>>

LinkPostOrder(ord) ==
    /\ run.op = "none"
    /\ LET S == postOrderDirectoryTraverse(Start(fs), LinkDir, Noop, ord)
       IN /\ fs' = S.fs
          /\ run' = RunOf("post", Noop, ord, fs, S)
    /\ UNCHANGED <<mergeVars, renderVars, linkTo, prevRun>>

LinkEmptyDir(ord) ==
    /\ run.op = "none"
    /\ LET S == emptyDir(Start(fs), LinkDir, ord)
       IN /\ fs' = S.fs
          /\ run' = RunOf("post", EmptyDirCallbacks, ord, fs, S)
    /\ UNCHANGED <<mergeVars, renderVars, linkTo, prevRun>>

LinkNext ==
    \/ \E ord \in Orders : LinkPreOrder(ord)
    \/ \E ord \in Orders : LinkPostOrder(ord)
    \/ \E ord \in Orders : LinkEmptyDir(ord)

SpecLinks == LinkInit /\ [][LinkNext]_vars

----------------------------------------------------------------------------
(* The prune specification: init()'s removal of the test directories *)

PathsOver(names, depth) == UNION {[1..n -> names] : n \in 0..depth}
PermsOf(names) ==
    {s \in [1..Cardinality(names) -> names] : \A i, j \in DOMAIN s : s[i] = s[j] => i = j}

RECURSIVE TreesOver(_, _, _)
\* the trees of at most n entries over paths, each entry of one of kinds
TreesOver(paths, kinds, n) ==
    IF n = 0 THEN {[p \in paths |-> IF p = <<>> THEN "dir" ELSE "none"]}
    ELSE LET smaller == TreesOver(paths, kinds, n - 1)
         IN smaller \cup
            UNION {{[f EXCEPT ![p] = k] :
                       p \in {q \in paths \ {<<>>} : f[q] = "none" /\ f[Parent(q)] = "dir"},
                       k \in kinds} : f \in smaller}

Denied == {"cypress", "__tests__"}
PruneNames == Denied \cup {"src"}
PrunePaths == PathsOver(PruneNames, MaxFixupDepth)
PruneTrees == TreesOver(PrunePaths, {"file", "dir"}, MaxFixupEntries)

PruneInit ==
    /\ fs \in PruneTrees
    /\ TraverseIdle
    /\ MergeIdle
    /\ RenderIdle

\* if (!needsTests) preOrderDirectoryTraverse(root, ...)
Prune(ord) ==
    /\ run.op = "none"
    /\ LET S == preOrderDirectoryTraverse(Start(fs), <<>>, PruneCallbacks(ord), ord)
       IN /\ fs' = S.fs
          /\ run' = RunOf("pre", PruneCallbacks(ord), ord, fs, S)
    /\ UNCHANGED <<mergeVars, renderVars, linkTo, prevRun>>

PruneNext == \E ord \in PermsOf(PruneNames) : Prune(ord)

SpecPrune == PruneInit /\ [][PruneNext]_vars

----------------------------------------------------------------------------
(* The rename specification: init()'s renaming of .js files for TypeScript *)

\* the names entries have before the rename and after it
RenameNames == {"a.js", "a.ts", "jsconfig.json", "tsconfig.json"}
\* jsconfig.json and tsconfig.json are entries of the project root only
NestedNames == {"a.js", "a.ts"}
RenamePaths ==
    {p \in PathsOver(RenameNames, MaxRenameDepth) : \A i \in 2..Len(p) : p[i] \in NestedNames}
RenameTrees == TreesOver(RenamePaths, {"file", "dir", "link"}, MaxRenameEntries)
\* the orders in which a directory is listed
RenameOrders == PermsOf(RenameNames)

\* the paths the symbolic links of the tree hold: those named .ts one, the
\* others the other
RenameTargets == {<<<<"a.ts">>, <<"a.js", "a.js">>>>, <<<<"a.js", "a.js">>, <<"a.ts">>>>}

RenameInit ==
    /\ fs \in RenameTrees
    /\ \E t \in RenameTargets :
         linkTo = [p \in RenamePaths |->
                     IF fs[p] # "link" THEN <<>>
                     ELSE IF EndsWith(Basename(p), ".ts") THEN t[2] ELSE t[1]]
    /\ run = NoRun
    /\ prevRun = NoRun
    /\ MergeIdle
    /\ RenderIdle

\* if (needsTypeScript) preOrderDirectoryTraverse(root, ...)
RenameToTs(ord) ==
    /\ run.op = "none"
    /\ LET S == preOrderDirectoryTraverse(Start(fs), <<>>, RenameCallbacks, ord)
       IN /\ fs' = S.fs
          /\ linkTo' = S.linkTo
          /\ run' = RunOf("pre", RenameCallbacks, ord, fs, S)
    /\ UNCHANGED <<mergeVars, renderVars, prevRun>>

RenameNext == \E ord \in RenameOrders : RenameToTs(ord)

SpecRename == RenameInit /\ [][RenameNext]_vars

----------------------------------------------------------------------------
(* The merge specification: one target, merged into repeatedly *)

MergeInit ==
    \E a \in Docs, b \in IncomingDocs :
        LET r1 == Parse(Heap0, a)
            r2 == Parse(r1.h, b)
        IN /\ heap = r2.h
           /\ tgt = r1.v
           /\ inc = <<r2.v>>
           /\ docT = a
           /\ docB = <<b>>
           /\ hist = <<Snapshot(r2.h, r1.v)>>
           /\ used = <<>>
           /\ fs = EmptyRoot
           /\ TraverseIdle
           /\ RenderIdle

\* deepMerge(target, incoming[i]); nothing is merged after a call has thrown
Merge(i) ==
    /\ Len(used) < MaxMerges
    /\ ~Thrown(heap)
    /\ heap' = deepMerge(heap, tgt.v, inc[i].v)
    /\ hist' = Append(hist, Snapshot(heap', tgt))
    /\ used' = Append(used, i)
    /\ UNCHANGED <<tgt, inc, docT, docB>>
    /\ UNCHANGED <<travVars, renderVars>>

MergeNext == \E i \in 1..Len(inc) : Merge(i)

SpecMerge == MergeInit /\ [][MergeNext]_vars

----------------------------------------------------------------------------
(* The frame specification: one target, two incoming documents *)

Singletons == {a \in Arrays : Len(a.kv) <= 1}
\* an empty sequence as target, a mapping with the key "1" and then a
\* sequence as incoming: the second merge reads a sequence with a hole
FrameTargets ==
    {TObj(<<>>)}
    \cup {TObj(<<TEntry("x", v)>>) : v \in Scalars \cup MapsOver(<<"a">>) \cup {TArr(<<>>)}}
FrameIncoming ==
    {TObj(<<TEntry("x", v)>>) :
        v \in MapsOver(<<"a">>) \cup MapsOver(<<"b">>) \cup MapsOver(<<"1">>)
              \cup MapsOver(<<"__proto__">>) \cup Singletons}

FrameInit ==
    \E a \in FrameTargets, b1 \in FrameIncoming, b2 \in FrameIncoming :
        LET r1 == Parse(Heap0, a)
            r2 == Parse(r1.h, b1)
            r3 == Parse(r2.h, b2)
        IN /\ heap = r3.h
           /\ tgt = r1.v
           /\ inc = <<r2.v, r3.v>>
           /\ docT = a
           /\ docB = <<b1, b2>>
           /\ hist = <<Snapshot(r3.h, r1.v)>>
           /\ used = <<>>
           /\ fs = EmptyRoot
           /\ TraverseIdle
           /\ RenderIdle

SpecFrame == FrameInit /\ [][MergeNext]_vars

----------------------------------------------------------------------------
(* The render specification: a template rendered into a project root *)

RenderInit ==
    /\ \E f \in RenderTrees :
         \E a \in (IF HasManifest(f, "tpl") THEN PkgDocs(TStr(1)) ELSE {TObj(<<>>)}),
            b \in (IF HasManifest(f, "out") THEN PkgDocs(TStr(2)) ELSE {TObj(<<>>)}) :
             /\ fs = f
             /\ data = InputData(f, a, b)
    /\ rrun = NoRender
    /\ ini = NoInit
    /\ TraverseIdle
    /\ MergeIdle

\* renderTemplate(templateDir, root)
Render(ord) ==
    /\ rrun.n < MaxRenders
    /\ ~rrun.err
    /\ LET R == renderTemplate([fs |-> fs, linkTo |-> linkTo, data |-> data, reads |-> {}, writes |-> {},
                                err |-> FALSE], TemplateRoot, ProjectRoot, ord)
       IN /\ fs' = R.fs
          /\ data' = R.data
          /\ rrun' = [n |-> rrun.n + 1, ord |-> ord, beforeFs |-> fs, beforeData |-> data,
                      reads |-> R.reads, writes |-> R.writes, err |-> R.err]
    /\ UNCHANGED <<mergeVars, linkTo, run, prevRun, ini>>

RenderNext == \E ord \in RenderOrders : Render(ord)

SpecRender == RenderInit /\ [][RenderNext]_vars

----------------------------------------------------------------------------
(* The init specification: init() up to its first render *)

InitInit ==
    /\ \E f \in RenderTrees :
         \E a \in (IF HasManifest(f, "tpl") THEN PkgDocs(TStr(1)) ELSE {TObj(<<>>)}),
            force \in BOOLEAN :
             /\ fs = f
             /\ data = InputData(f, a, TObj(<<>>))
             /\ ini = [pc |-> "prompt", force |-> force, shouldOverwrite |-> "undefined",
                       before |-> f, touched |-> 0]
    /\ rrun = NoRender
    /\ TraverseIdle
    /\ MergeIdle

\* await prompts(...), up to the question shouldOverwrite: its type() looks
\* at the directory; the question is skipped, or asked and init() waits for
\* the answer, or the prompts are rejected and init logs and exits
InitAsk ==
    /\ ini.pc = "prompt"
    /\ LET type == ShouldOverwriteType(fs, ini.force)
       IN ini' = [ini EXCEPT !.shouldOverwrite = IF type = "throws" THEN "throws" ELSE @,
                             !.pc = IF type = "throws" THEN "exit"
                                    ELSE IF type = "confirm" THEN "asked" ELSE "questions"]
    /\ UNCHANGED <<mergeVars, travVars, data, rrun>>

\* the answer to shouldOverwrite: a declined overwrite throws in type() of
\* overwriteChecker, and so does a question the user aborts (onCancel)
InitAnswer ==
    /\ ini.pc = "asked"
    /\ \E cancelled \in BOOLEAN, answer \in BOOLEAN :
         ini' = [ini EXCEPT !.shouldOverwrite = IF cancelled THEN @
                                                ELSE IF answer THEN "true" ELSE "false",
                            !.pc = IF cancelled \/ ~answer THEN "exit" ELSE "questions"]
    /\ UNCHANGED <<mergeVars, travVars, data, rrun>>

\* the questions after overwriteChecker (packageName and the toggles), up
\* to the end of the prompts; the user may abort any of them
InitQuestions ==
    /\ ini.pc = "questions"
    /\ \E cancelled \in BOOLEAN :
         ini' = [ini EXCEPT !.pc = IF cancelled THEN "exit" ELSE "build"]
    /\ UNCHANGED <<mergeVars, travVars, data, rrun>>

\* while init() awaits the user, another process makes or removes a file
\* below the project root
OtherProcess(p) ==
    /\ ini.pc \in {"asked", "questions"}
    /\ ini.touched < MaxTouches
    /\ \/ /\ fs[p] = "none" /\ fs[Parent(p)] = "dir"
          /\ fs' = [fs EXCEPT ![p] = "file"]
          /\ data' = [data EXCEPT ![p] = Bytes(p)]
       \/ /\ fs[p] = "file"
          /\ fs' = [fs EXCEPT ![p] = "none"]
          /\ data' = [data EXCEPT ![p] = NoData]
    /\ ini' = [ini EXCEPT !.touched = @ + 1]
    /\ UNCHANGED <<mergeVars, linkTo, run, prevRun, rrun>>

InitBuildRoot(ord) ==
    /\ ini.pc = "build"
    /\ LET S == BuildRoot(fs, ini.shouldOverwrite, ord)
       IN /\ fs' = S.fs
          /\ data' = DataOn(S.fs, data)
          /\ ini' = [ini EXCEPT !.pc = IF S.err THEN "failed" ELSE "pkg"]
    /\ UNCHANGED <<mergeVars, linkTo, run, prevRun, rrun>>

\* fs.writeFileSync(path.resolve(root, 'package.json'), JSON.stringify(pkg, null, 2))
InitWritePkg ==
    /\ ini.pc = "pkg"
    /\ LET p == Real(fs, linkTo, Append(ProjectRoot, "package.json"), MaxLinkHops)
       IN IF p \notin DOMAIN fs \/ fs[p] = "dir" \/ KindAt(fs, Parent(p)) # "dir"
          THEN ini' = [ini EXCEPT !.pc = "failed"] /\ UNCHANGED <<fs, data>>
          ELSE /\ fs' = [fs EXCEPT ![p] = "file"]
               /\ data' = [data EXCEPT ![p] = JsonText(InitialPkg, "indent2")]
               /\ ini' = [ini EXCEPT !.pc = "render"]
    /\ UNCHANGED <<mergeVars, linkTo, run, prevRun, rrun>>

\* render('base')
InitRender(ord) ==
    /\ ini.pc = "render"
    /\ LET R == renderTemplate([fs |-> fs, linkTo |-> linkTo, data |-> data, reads |-> {}, writes |-> {},
                                err |-> FALSE], TemplateRoot, ProjectRoot, ord)
       IN /\ fs' = R.fs
          /\ data' = R.data
          /\ rrun' = [n |-> rrun.n + 1, ord |-> ord, beforeFs |-> fs, beforeData |-> data,
                      reads |-> R.reads, writes |-> R.writes, err |-> R.err]
          /\ ini' = [ini EXCEPT !.pc = IF R.err THEN "failed" ELSE "rendered"]
    /\ UNCHANGED <<mergeVars, linkTo, run, prevRun>>

InitNext ==
    \/ InitAsk
    \/ InitAnswer
    \/ InitQuestions
    \/ \E p \in TouchPaths : OtherProcess(p)
    \/ \E ord \in RenderOrders : InitBuildRoot(ord)
    \/ InitWritePkg
    \/ \E ord \in RenderOrders : InitRender(ord)

SpecInit == InitInit /\ [][InitNext]_vars

----------------------------------------------------------------------------
(* Properties of deepMerge *)

\* the incoming document of the n-th merge, and the target before and after it
IncomingOf(n) == docB[used[n]]
Before(n) == hist[n]
After(n) == hist[n + 1]

BothSequences(old, new) == old.t = "arr" /\ new.t = "arr"
BothMappings(old, new) == old.t = "obj" /\ new.t = "obj"

\* C2: for every key of incoming, unless both values are sequences, the value is
\* merged recursively only when both are mappings, and in every other case
\* (a sequence against a mapping included) the target holds exactly incoming's
\* value after the call.
C2_IncomingWinsUnlessBothMappings ==
    Len(used) >= 1 =>
        \A k \in TKeys(IncomingOf(1)) :
            LET old == TGet(Before(1), k)
                new == TGet(IncomingOf(1), k)
                res == TGet(After(1), k)
            IN ~BothSequences(old, new) =>
                   IF BothMappings(old, new)
                   THEN res.t = "obj" /\ TKeys(res) = TKeys(old) \cup TKeys(new)
                   ELSE res = new

\* what C2 says, with the cases left out in which one value is a sequence and
\* the other a mapping (there the code merges property by property) and
\* those in which incoming's mapping has the key __proto__
C2_HoldsOffMixedContainers ==
    Len(used) >= 1 =>
        \A k \in TKeys(IncomingOf(1)) :
            LET old == TGet(Before(1), k)
                new == TGet(IncomingOf(1), k)
                res == TGet(After(1), k)
            IN ~BothSequences(old, new) =>
                   IF BothMappings(old, new)
                   THEN /\ res.t = "obj"
                        /\ ~THas(new, "__proto__") => TKeys(res) = TKeys(old) \cup TKeys(new)
                   ELSE IF IsContainer(old) /\ IsContainer(new)
                   THEN res.t = old.t /\ res # new
                   ELSE res = new

RECURSIVE KeysPreserved(_, _, _)
\* at a level the merge reached with target a and incoming b, giving r
KeysPreserved(a, b, r) ==
    /\ IsContainer(r)
    /\ TKeys(r) = TKeys(a) \cup TKeys(b)
    /\ \A k \in TKeys(a) \ TKeys(b) : TGet(r, k) = TGet(a, k)
    /\ \A k \in TKeys(a) \cap TKeys(b) :
           LET old == TGet(a, k)
               new == TGet(b, k)
           IN (IsContainer(old) /\ IsContainer(new) /\ ~BothSequences(old, new))
                  => KeysPreserved(old, new, TGet(r, k))

\* C3: at every level the merge reaches, a key of the target that incoming does
\* not define is still there with its value unchanged, and the keys of the
\* result are the union of the keys of the two.
C3_KeyPreservation ==
    \A n \in 1..Len(used) : KeysPreserved(Before(n), IncomingOf(n), After(n))

RECURSIVE Ordinary(_)
\* no mapping of the document has a key that names the prototype accessor or
\* the length of a sequence
Ordinary(tr) ==
    IsContainer(tr) =>
        /\ TKeys(tr) \cap {"__proto__", "length"} = {}
        /\ \A k \in TKeys(tr) : Ordinary(TGet(tr, k))

\* what C3 says, of the merges of an incoming document without such keys
C3_HoldsForOrdinaryKeys ==
    \A n \in 1..Len(used) :
        Ordinary(IncomingOf(n)) => KeysPreserved(Before(n), IncomingOf(n), After(n))

\* a merge of two mappings with keys apart, below a key only the target has
C3_OrdinaryMerged ==
    /\ Len(used) >= 1
    /\ Ordinary(IncomingOf(1))
    /\ THas(Before(1), "y") /\ ~THas(IncomingOf(1), "y")
    /\ LET old == TGet(Before(1), "x")
           new == TGet(IncomingOf(1), "x")
       IN /\ BothMappings(old, new)
          /\ TKeys(old) \ TKeys(new) # {}
          /\ TKeys(new) \ TKeys(old) # {}

\* a merge set Object.prototype's property a, from incoming's key __proto__,
\* and left the target without that key
C3_PrototypePolluted ==
    /\ Len(used) = 1
    /\ HasProp(heap, ObjectPrototype, "a")
    /\ THas(TGet(IncomingOf(1), "x"), "__proto__")
    /\ ~THas(TGet(After(1), "x"), "__proto__")

\* a merge of the key length into a sequence took an element of the target away
C3_SequenceTruncated ==
    /\ Len(used) = 1
    /\ TGet(Before(1), "x").t = "arr" /\ THas(TGet(IncomingOf(1), "x"), "length")
    /\ TKeys(TGet(Before(1), "x")) \ TKeys(TGet(After(1), "x")) # {}

\* a merge threw
C3_MergeThrew == Len(used) >= 1 /\ Thrown(heap)

RECURSIVE FirstSeen(_, _, _)
\* seq without the elements equal to an earlier one; with deep = FALSE only
\* scalars are ever equal to an earlier element
FirstSeen(seq, acc, deep) ==
    IF seq = <<>> THEN acc
    ELSE IF (deep \/ ~IsContainer(Head(seq))) /\ \E i \in 1..Len(acc) : acc[i] = Head(seq)
         THEN FirstSeen(Tail(seq), acc, deep)
         ELSE FirstSeen(Tail(seq), Append(acc, Head(seq)), deep)

\* C4 as claimed: two sequences merge into their union deduplicated by value
\* equality, nested mappings and sequences included, in first-seen order.
C4_SequenceUnionDedupByValue ==
    Len(used) >= 1 =>
        \A k \in TKeys(IncomingOf(1)) :
            LET old == TGet(Before(1), k)
                new == TGet(IncomingOf(1), k)
            IN BothSequences(old, new) =>
                   TGet(After(1), k) = TArr(FirstSeen(TElems(old) \o TElems(new), <<>>, TRUE))

\* C4: two sequences of documents sharing no structure merge into a sequence
\* of target's elements then incoming's in first-seen order, in which scalars
\* are deduplicated by value and every nested mapping or sequence is kept
\* (they are compared by identity).
C4_SequenceUnionDedupScalars ==
    Len(used) >= 1 =>
        \A k \in TKeys(IncomingOf(1)) :
            LET old == TGet(Before(1), k)
                new == TGet(IncomingOf(1), k)
            IN BothSequences(old, new) =>
                   TGet(After(1), k) = TArr(FirstSeen(TElems(old) \o TElems(new), <<>>, FALSE))

C4_Witness ==
    /\ Len(used) = 1
    /\ LET old == TGet(Before(1), "x")
           new == TGet(IncomingOf(1), "x")
       IN /\ BothSequences(old, new)
          /\ \E i \in 1..Len(TElems(old)), j \in 1..Len(TElems(new)) :
                 TElems(old)[i] = TElems(new)[j] /\ IsContainer(TElems(old)[i])
          /\ \E i \in 1..Len(TElems(old)), j \in 1..Len(TElems(new)) :
                 TElems(old)[i] = TElems(new)[j] /\ ~IsContainer(TElems(old)[i])
          /\ Len(TElems(TGet(After(1), "x"))) = 3

\* C5: merging a document into a copy of itself twice gives what merging it
\* once gives.
C5_SelfMergeIdempotent ==
    (Len(used) = 2 /\ used[1] = used[2] /\ docT = IncomingOf(1)) => After(2) = After(1)

C5_Witness ==
    /\ Len(used) = 2 /\ used[1] = used[2] /\ docT = IncomingOf(1)
    /\ LET x == TGet(docT, "x")
       IN /\ x.t = "arr"
          /\ \E i \in 1..Len(TElems(x)) : IsContainer(TElems(x)[i])
          /\ After(1) # Before(1)

----------------------------------------------------------------------------
(* Properties of the traversals *)

Runs == {r \in {run, prevRun} : r.op # "none"}
LogPaths(r) == {r.log[i].p : i \in 1..Len(r.log)}
LogPairs(r) == {<<r.log[i].cb, r.log[i].p>> : i \in 1..Len(r.log)}
Listed(r) == {r.listed[i] : i \in 1..Len(r.listed)}
\* the position of a name in a listing order
PosIn(ord, n) == CHOOSE i \in 1..Len(ord) : ord[i] = n

\* the victims onDirectory was invoked on: each was removed by it
RemovedBy(r) == r.cb.victims \cap LogPaths(r)

\* C6: when onDirectory removes the directory d it is given, the pre-order
\* traversal does not raise, never lists d, invokes no callback beneath d, and
\* goes on with the remaining siblings: every entry not beneath a removed
\* directory gets its callback.
C6_PreOrderDeletionSafe ==
    (run.op = "pre" /\ run.cb.kind = "rmgiven") =>
        /\ ~run.err
        /\ \A d \in RemovedBy(run) :
               /\ d \notin Listed(run)
               /\ \A p \in LogPaths(run) : ~Beneath(d, p)
               /\ fs[d] = "none"
        /\ LogPaths(run) =
               {p \in Entries(run.before) : \A d \in run.cb.victims : ~Beneath(d, p)}

C6_Witness ==
    /\ run.op = "pre" /\ run.cb.kind = "rmgiven"
    /\ \E d \in RemovedBy(run) :
           /\ ChildrenOf(run.before, d) # {}
           /\ \E i, j \in 1..Len(run.log) :
                  /\ i < j
                  /\ run.log[i].p = d
                  /\ Parent(run.log[j].p) = Parent(d)

\* the callbacks invoked after the one on r.cb.at
AfterRemoval(r) ==
    {r.log[j].p : j \in {k \in 1..Len(r.log) :
                            \E i \in 1..(k - 1) : r.log[i].p = r.cb.at}}

\* C7 as claimed: whatever entry a callback removes, a sibling not yet visited
\* included, the pre-order traversal completes without raising and invokes no
\* callback on the removed entry.
C7_ToleratesAnyRemoval ==
    (run.op = "pre" /\ run.cb.kind = "rmat") =>
        /\ ~run.err
        /\ \A p \in AfterRemoval(run) : ~IsPrefix(run.cb.target, p)

\* the callback on at removes a sibling of at that the loop has yet to reach
RemovesPendingSibling(r) ==
    /\ r.cb.target # r.cb.at
    /\ Parent(r.cb.target) = Parent(r.cb.at)
    /\ PosIn(r.ord, Basename(r.cb.at)) < PosIn(r.ord, Basename(r.cb.target))

\* C7: a callback may remove the entry it was invoked on (a directory with its
\* subtree): the pre-order traversal then completes without raising and invokes
\* no callback on or beneath it afterwards.  When a callback removes a sibling
\* that the listing being iterated has yet to reach, the traversal raises; no
\* callback is invoked on the removed entry either way.
C7_ToleratesRemovalOfGivenEntry ==
    (run.op = "pre" /\ run.cb.kind = "rmat") =>
        /\ run.cb.target = run.cb.at => ~run.err
        /\ RemovesPendingSibling(run) => run.err
        /\ \A p \in AfterRemoval(run) : ~IsPrefix(run.cb.target, p)

C7_Witness ==
    /\ run.op = "pre" /\ run.cb.kind = "rmat"
    /\ run.cb.target = run.cb.at
    /\ ChildrenOf(run.before, run.cb.at) # {}
    /\ AfterRemoval(run) # {}

\* one callback for every entry below the root, of the kind of the entry
VisitsEachOnce(r) ==
    /\ ~r.err
    /\ Len(r.log) = Cardinality(Entries(r.before))
    /\ LogPaths(r) = Entries(r.before)
    /\ \A i \in 1..Len(r.log) :
           r.log[i].cb = (IF r.before[r.log[i].p] = "dir" THEN "dir" ELSE "file")

\* C8: with callbacks that change nothing, each traversal invokes exactly one
\* callback for every entry strictly below the root (onDirectory for a
\* directory, onFile for anything else), and the two visit the same paths.
C8_TraversalCompleteness ==
    /\ \A r \in Runs : r.cb = Noop => VisitsEachOnce(r)
    /\ (run.cb = Noop /\ prevRun.cb = Noop /\ {run.op, prevRun.op} = {"pre", "post"})
           => LogPairs(run) = LogPairs(prevRun)

C8_Witness ==
    /\ run.cb = Noop /\ prevRun.cb = Noop /\ {run.op, prevRun.op} = {"pre", "post"}
    /\ run.ord # prevRun.ord
    /\ \E p \in Entries(run.before) : run.before[p] = "link" /\ Len(p) > 1
    /\ Cardinality(Entries(run.before)) = MaxEntries

\* C9: the post-order traversal invokes onDirectory(d) only after the callbacks
\* of every entry beneath d; so emptyDir finds every directory empty when it
\* removes it, never raises, and leaves nothing below the root.
C9_PostOrderChildrenFirst ==
    \A r \in Runs : r.op = "post" =>
        /\ \A i \in 1..Len(r.log) :
               r.log[i].cb = "dir" =>
                   \A p \in Entries(r.before) :
                       Beneath(r.log[i].p, p) => \E j \in 1..(i - 1) : r.log[j].p = p
        /\ r.cb = EmptyDirCallbacks =>
               /\ ~r.err
               /\ \A i \in 1..Len(r.log) : r.log[i].cb = "dir" => r.log[i].empty
               /\ LogPaths(r) = Entries(r.before)
        /\ (r = run /\ r.cb = EmptyDirCallbacks) => Entries(fs) = {}

C9_Witness ==
    /\ run.op = "post" /\ run.cb = EmptyDirCallbacks
    /\ \E p \in Entries(run.before) : Len(p) = 3
    /\ Entries(fs) = {}

----------------------------------------------------------------------------
(* Properties of init() *)

RootWasNonEmpty == ini.before[ProjectRoot] = "dir" /\ ChildrenOf(ini.before, ProjectRoot) # {}
OverwriteGranted == ini.shouldOverwrite = "true" \/ ini.force
LeftOver == {p \in Entries(ini.before) : Beneath(ProjectRoot, p) /\ fs[p] # "none"}

\* C1: when the root exists non-empty and the overwrite was confirmed or
\* forced, then once the root is built (before package.json is written and
\* before the first render) no entry the root held before the run remains
C1_OverwriteEmptiesRoot ==
    (ini.pc = "pkg" /\ RootWasNonEmpty /\ OverwriteGranted) => LeftOver = {}

\* the confirmed half alone: an answer of yes on the prompt empties the root
ConfirmedOverwriteEmptiesRoot ==
    (ini.pc = "pkg" /\ RootWasNonEmpty /\ ini.shouldOverwrite = "true") => LeftOver = {}
ConfirmedOverwriteReached ==
    ini.pc = "pkg" /\ RootWasNonEmpty /\ ini.shouldOverwrite = "true"
        /\ \E p \in Entries(ini.before) : Len(p) = 3 /\ p[1] = "out"

\* what another process does while a question waits is not seen by the
\* answer already given or the check already made: the overwrite confirmed
\* for a root that is empty by then, and a root filled after the check,
\* never asked about and rendered into as it is
ConfirmedForEmptiedRoot ==
    ini.pc = "build" /\ ini.shouldOverwrite = "true" /\ ChildrenOf(fs, ProjectRoot) = {}
FilledRootRendered ==
    /\ ini.pc = "rendered" /\ ini.shouldOverwrite = "undefined" /\ ~ini.force
    /\ ChildrenOf(ini.before, ProjectRoot) = {}
    /\ fs[<<"out", "f">>] = "file" /\ rrun.beforeFs[<<"out", "f">>] = "file"

----------------------------------------------------------------------------
(* Properties of the manifest merge of renderTemplate *)

DestOf(src) == ProjectRoot \o Tail(src)
\* the template manifests the last render came to
RenderedManifests ==
    {src \in RenderPaths : /\ Len(src) >= 2 /\ src[1] = "tpl"
                           /\ Basename(src) = "package.json"
                           /\ rrun.beforeFs[src] = "file"}
\* the content of dest as the render of that manifest found it: the render of
\* an earlier entry cannot have written it, each name being rendered once
Found(dest) == rrun.beforeData[dest]
Existed(dest) == rrun.beforeFs[dest] # "none"

\* deepMerge(existing as target, source as incoming), as a document
Merged(existing, source) ==
    LET e == Parse(Heap0, existing)
        n == Parse(e.h, source)
    IN Stringify(deepMerge(n.h, e.v.v, n.v.v), e.v)

KeySeq(tr) == [i \in 1..Len(tr.kv) |-> tr.kv[i].k]
IsDepType(k) == \E i \in 1..Len(depTypes) : depTypes[i] = k
Ascending(keys) == \A i, j \in 1..Len(keys) : i < j => Rank(keys[i]) < Rank(keys[j])
SameFields(x, y) == TKeys(x) = TKeys(y) /\ \A k \in TKeys(x) : TGet(x, k) = TGet(y, k)

\* doc is the merged document m with the keys of its dependency fields put
\* in ascending order and everything else where m has it
MergedWithSortedDeps(doc, m) ==
    /\ doc.t = "obj"
    /\ KeySeq(doc) = KeySeq(m)
    /\ \A k \in TKeys(m) :
         IF IsDepType(k) /\ TGet(m, k).t = "obj"
         THEN /\ TGet(doc, k).t = "obj"
              /\ SameFields(TGet(doc, k), TGet(m, k))
              /\ Ascending(KeySeq(TGet(doc, k)))
         ELSE TGet(doc, k) = TGet(m, k)

\* C10: after a render, for each template file named package.json: if its
\* destination existed, the destination holds deepMerge(existing, source)
\* with the keys of each dependency field ascending and every other field,
\* and the position of each top-level field, as the merge left it, written
\* with two-space indentation and a final newline; if it did not exist, the
\* destination was not read and holds a copy of the source
C10_RenderManifestMerge ==
    (rrun.n >= 1 /\ ~rrun.err) =>
        \A src \in RenderedManifests :
            LET dest == DestOf(src)
            IN IF Existed(dest)
               THEN /\ data[dest].json
                    /\ data[dest].fmt = "indent2nl"
                    /\ MergedWithSortedDeps(data[dest].doc,
                                            Merged(Found(dest).doc, rrun.beforeData[src].doc))
               ELSE /\ fs[dest] = "file"
                    /\ data[dest] = rrun.beforeData[src]
                    /\ dest \notin rrun.reads

\* a render merged a manifest whose merged dependencies were out of order and
\* whose other mapping field kept an order that is not ascending
C10_Witness ==
    /\ rrun.n >= 1 /\ ~rrun.err
    /\ \E src \in RenderedManifests :
         LET dest == DestOf(src)
             m == Merged(Found(dest).doc, rrun.beforeData[src].doc)
         IN /\ Existed(dest)
            /\ THas(m, "dependencies") /\ ~Ascending(KeySeq(TGet(m, "dependencies")))
            /\ THas(m, "scripts") /\ ~Ascending(KeySeq(TGet(m, "scripts")))
            /\ KeySeq(m) = <<"scripts", "dependencies">>
            /\ Found(dest).doc # m

\* a render copied a manifest to a destination that did not exist
ManifestCopied ==
    /\ rrun.n >= 1 /\ ~rrun.err
    /\ \E src \in RenderedManifests : ~Existed(DestOf(src)) /\ fs[DestOf(src)] = "file"

----------------------------------------------------------------------------
(* Properties of the hidden-file rule of renderTemplate *)

\* the template entries the last render came to
RenderedEntries == {src \in RenderPaths : Len(src) >= 2 /\ src[1] = "tpl" /\ rrun.beforeFs[src] # "none"}
Underscored(src) == rrun.beforeFs[src] = "file" /\ SubSeq(Basename(src), 1, 1) = "_"
\* the name with its first character, and no other, made a dot
Dotted(name) == "." \o SubSeq(name, 2, Len(name))

\* C11: after a render, each template file whose name begins with '_' is in
\* the same destination directory under the name with that first character
\* (only) replaced by '.', with the content of the source; no entry of the
\* '_' name was created; each template directory is rendered under its own name
C11_HiddenFileRule ==
    (rrun.n >= 1 /\ ~rrun.err) =>
        \A src \in RenderedEntries :
            LET dest == DestOf(src)
                dotted == Append(Parent(dest), Dotted(Basename(src)))
            IN /\ Underscored(src) =>
                    /\ fs[dotted] = "file"
                    /\ data[dotted] = rrun.beforeData[src]
                    /\ dotted \in rrun.writes
                    /\ fs[dest] = rrun.beforeFs[dest] /\ dest \notin rrun.writes
               /\ rrun.beforeFs[src] = "dir" => fs[dest] = "dir"

\* a render wrote a file named _a_b inside a directory named _d as .a_b there
C11_Witness ==
    /\ rrun.n >= 1 /\ ~rrun.err
    /\ \E src \in RenderedEntries :
         /\ Underscored(src) /\ Len(src) = 3 /\ src[2] = "_d"
         /\ Basename(src) = "_a_b"
         /\ fs[<<"out", "_d", ".a_b">>] = "file"
         /\ rrun.beforeFs[<<"out", "_d">>] = "none"

----------------------------------------------------------------------------
(* The frame of renderTemplate *)

AtOrBelow(root, p) == IsPrefix(root, p)
Untouched(p) == fs[p] = rrun.beforeFs[p] /\ data[p] = rrun.beforeData[p]
DirCreated(p) == rrun.beforeFs[p] = "none" /\ fs[p] = "dir"
FileCreated(p) == rrun.beforeFs[p] = "none" /\ fs[p] = "file"
FileOverwritten(p) == rrun.beforeFs[p] = "file" /\ fs[p] = "file"

\* C12: over a whole render of the template into a root outside it, whether
\* it completes or raises, every path is untouched unless it is at or below
\* the root and a directory was created or a file created or overwritten
\* there; so no template entry changes and no entry of the root is removed
C12_RenderFrame ==
    rrun.n >= 1 =>
        \A p \in RenderPaths :
            \/ Untouched(p)
            \/ /\ AtOrBelow(ProjectRoot, p)
               /\ DirCreated(p) \/ FileCreated(p) \/ FileOverwritten(p)

\* a render created a directory in the root and gave an existing file new
\* content
C12_Witness ==
    /\ rrun.n >= 1 /\ ~rrun.err
    /\ \E p \in RenderPaths : Len(p) = 2 /\ DirCreated(p)
    /\ \E p \in RenderPaths : FileOverwritten(p) /\ ~Untouched(p)
    /\ \E p \in RenderPaths : Len(p) = 2 /\ p[1] = "tpl" /\ rrun.beforeFs[p] # "none"

----------------------------------------------------------------------------
(* Properties of the traversals over symbolic links *)

CallbacksOn(p) == {i \in 1..Len(run.log) : run.log[i].p = p}
\* the link at p was handed to onFile once, and nothing was listed or
\* visited by way of it
LinkIsLeaf(p) ==
    /\ Cardinality(CallbacksOn(p)) = 1
    /\ \A i \in CallbacksOn(p) : run.log[i].cb = "file"
    /\ \A i \in 1..Len(run.listed) : ~IsPrefix(p, run.listed[i])
    /\ \A i \in 1..Len(run.log) : ~Beneath(p, run.log[i].p)

\* C13: a traversal of a directory completes having handed every symbolic
\* link in it, whatever it points at, to onFile on the link's own path and
\* listed nothing through it; emptyDir of the directory leaves every entry
\* outside it as it was and the directory itself in place, empty
C13_LinksAreFileLeaves ==
    run.op # "none" =>
        /\ ~run.err
        /\ \A p \in Links(run.before) : LinkIsLeaf(p)
        /\ \A q \in Outside : fs[q] = run.before[q]
        /\ fs[LinkDir] = "dir"
        /\ IF run.cb = EmptyDirCallbacks THEN ChildrenOf(fs, LinkDir) = {}
           ELSE fs = run.before

\* emptyDir ran over a directory holding a link to a directory outside it
\* that is not empty
C13_Witness ==
    /\ run.op = "post" /\ run.cb = EmptyDirCallbacks /\ ~run.err
    /\ \E p \in Links(run.before) :
         /\ run.before[linkTo[p]] = "dir"
         /\ ChildrenOf(fs, linkTo[p]) # {}
         /\ fs[p] = "none"

----------------------------------------------------------------------------
(* Properties of the prune *)

IsDenied(f, p) == p # <<>> /\ f[p] = "dir" /\ Basename(p) \in Denied
\* p is a denied directory of f or lies in one
InDenied(f, p) == \E n \in 1..Len(p) : IsDenied(f, SubSeq(p, 1, n))

\* C14: once the prune has run, it has not raised, no directory named cypress
\* or __tests__ is left at any depth, everything that was in one is gone, and
\* every other entry is as it was
C14_PrunePostcondition ==
    run.op # "none" =>
        /\ ~run.err
        /\ \A p \in PrunePaths :
             /\ ~IsDenied(fs, p)
             /\ IF InDenied(run.before, p) THEN fs[p] = "none" ELSE fs[p] = run.before[p]

\* the prune removed a denied directory holding another denied directory with
\* an entry in it, beside an entry that stays
C14_Witness ==
    /\ run.op # "none" /\ ~run.err
    /\ \E p \in PrunePaths :
         /\ Len(p) = 2 /\ IsDenied(run.before, p) /\ IsDenied(run.before, Parent(p))
         /\ ChildrenOf(run.before, p) # {}
    /\ \E p \in PrunePaths : Len(p) = 1 /\ ~IsDenied(run.before, p) /\ fs[p] # "none"

----------------------------------------------------------------------------
(* Properties of the rename *)

JsNamed(name) == EndsWith(name, ".js") \/ name = "jsconfig.json"
TsName(name) ==
    IF EndsWith(name, ".js") THEN ReplaceSuffix(name, ".js", ".ts") ELSE "tsconfig.json"
TsPath(p) == Append(Parent(p), TsName(Basename(p)))
\* the files and links the rename is to rename
ToRename(f) == {p \in Entries(f) : f[p] \in {"file", "link"} /\ JsNamed(Basename(p))}
NoJsLeft == \A p \in Entries(fs) : fs[p] = "dir" \/ ~JsNamed(Basename(p))
\* p was handed to the callback once and is now at its new name, as the file
\* or the link it was, a link holding the path it held
RenamedOnce(p) ==
    /\ Cardinality(CallbacksOn(p)) = 1
    /\ fs[p] = "none"
    /\ TsPath(p) \in DOMAIN fs /\ fs[TsPath(p)] = run.before[p]
    /\ run.before[p] = "link" => linkTo[TsPath(p)] = run.held[p]
\* no callback on the new name after the one that renamed p
NotVisitedAgain(p) ==
    \A i, j \in 1..Len(run.log) : (run.log[i].p = p /\ run.log[j].p = TsPath(p)) => j < i

\* C15 as stated: once the rename has run it has not raised, no file is left
\* with a name ending in .js or named jsconfig.json, each such file was
\* renamed once to its .ts or tsconfig.json name and not visited again
C15_RenamePostcondition ==
    run.op # "none" =>
        /\ ~run.err
        /\ NoJsLeft
        /\ \A p \in ToRename(run.before) : RenamedOnce(p) /\ NotVisitedAgain(p)

NewNameIsDirectory(f) == \E p \in ToRename(f) : KindAt(f, TsPath(p)) = "dir"
NewNameTaken(f) == \E p \in ToRename(f) : KindAt(f, TsPath(p)) # "none"
\* the directory of p was listed with x before y
ListedBefore(ord, x, y) ==
    \E i, j \in 1..Len(ord) : i < j /\ ord[i] = x /\ ord[j] = y
\* a file or a link had the new name of p, and was listed after p
NewNameListedLater(p) ==
    /\ KindAt(run.before, TsPath(p)) \in {"file", "link"}
    /\ ListedBefore(run.ord, Basename(p), TsName(Basename(p)))

\* C15: the rename raises exactly when a directory has the name a file or a
\* link is to get; when it does not raise, no file or link is left with a
\* name ending in .js or named jsconfig.json, each such entry was handed to
\* the callback once and is at its new name, a link still a link holding the
\* path it held, and the callback was invoked on the new name after the
\* rename exactly when a file or a link had that name and was listed later
C15_RenameWhereNewNameIsFree ==
    run.op # "none" =>
        /\ run.err <=> NewNameIsDirectory(run.before)
        /\ ~run.err =>
              /\ NoJsLeft
              /\ \A p \in ToRename(run.before) :
                    /\ RenamedOnce(p)
                    /\ NotVisitedAgain(p) <=> ~NewNameListedLater(p)

\* the rename renamed a link a.js in a directory, after the directory's
\* listing was read, and jsconfig.json, with every new name free
C15_Witness ==
    /\ run.op # "none" /\ ~run.err
    /\ ~NewNameTaken(run.before)
    /\ \E p \in ToRename(run.before) :
         /\ Len(p) = 2 /\ Basename(p) = "a.js"
         /\ run.before[p] = "link" /\ fs[TsPath(p)] = "link"
         /\ linkTo[TsPath(p)] = run.held[p] /\ run.held[p] # <<>>
    /\ \E p \in ToRename(run.before) : Basename(p) = "jsconfig.json"
    /\ \E p \in ToRename(run.before) : run.log[1].p # p /\ Basename(run.log[1].p) # "a.ts"

\* the rename replaced a file a.ts, listed after a.js, and visited it again
C15_ReplacedAndVisitedAgain ==
    /\ run.op # "none" /\ ~run.err
    /\ \E p \in ToRename(run.before) : NewNameListedLater(p) /\ ~NotVisitedAgain(p)
\* the same of a link tsconfig.json, listed after jsconfig.json
C15_ManifestReplacedAndVisitedAgain ==
    /\ run.op # "none" /\ ~run.err
    /\ \E p \in ToRename(run.before) :
         /\ Basename(p) = "jsconfig.json" /\ run.before[TsPath(p)] = "link"
         /\ NewNameListedLater(p) /\ ~NotVisitedAgain(p)
\* the rename replaced a file a.ts that was listed, and visited, before a.js
C15_ReplacedNotVisitedAgain ==
    /\ run.op # "none" /\ ~run.err
    /\ \E p \in ToRename(run.before) :
         /\ KindAt(run.before, TsPath(p)) = "file"
         /\ NotVisitedAgain(p) /\ RenamedOnce(p)
\* the rename raised on a directory that has the new name
C15_RaisedOnDirectory == run.op # "none" /\ run.err /\ NewNameIsDirectory(run.before)

----------------------------------------------------------------------------
(* The frame of deepMerge *)

IncomingAsGiven(i) == Snapshot(heap, inc[i]) = docB[i]

\* C16: after every merge into the target, each incoming document, nested
\* mappings and sequences included, is what it was before the first merge
C16_IncomingNeverModified == \A i \in 1..Len(inc) : IncomingAsGiven(i)

\* one merge leaves the incoming documents as given
FirstMergeKeepsIncoming == Len(used) <= 1 => \A i \in 1..Len(inc) : IncomingAsGiven(i)
\* so do two merges of the same document
SameDocumentKeepsIncoming ==
    (Len(used) = 2 /\ used[1] = used[2]) => \A i \in 1..Len(inc) : IncomingAsGiven(i)

====
